---- MODULE Spec2Model ----
(***************************************************************************)
(* A model of autoheaders: the block replacer (blockrepl.py), the include  *)
(* filter (precpp.py), the metadata scanner (parser.py, cfile.py) and the  *)
(* header generator (generator.py).                                        *)
(*                                                                         *)
(* Byte strings are sequences of one-character strings.  Offsets are the   *)
(* 0-based offsets of the Python source; At(t, i) is t[i] of the source.   *)
(***************************************************************************)
EXTENDS Integers, Sequences, FiniteSets, TLC

(***************************************************************************)
(* Byte-string helpers (Python's bytes operations).                        *)
(***************************************************************************)
NL == "\n"

At(t, i) == t[i + 1]

\* t[a:b] of Python, for 0 <= a, b (clamped to the length of t).
Slice(t, a, b) ==
  LET hi == IF b > Len(t) THEN Len(t) ELSE b
  IN  IF a >= hi THEN <<>> ELSE SubSeq(t, a + 1, hi)

RECURSIVE Concat(_)
Concat(parts) ==
  IF parts = <<>> THEN <<>> ELSE Head(parts) \o Concat(Tail(parts))

\* t[a:b].count(b"\n")
CountNL(t, a, b) == Cardinality({k \in a..(b - 1) : k < Len(t) /\ At(t, k) = NL})

count_newlines(t) == CountNL(t, 0, Len(t))

\* bytes.startswith(s, i)
StartsWith(t, s, i) ==
  /\ i + Len(s) <= Len(t)
  /\ \A k \in 1..Len(s) : t[i + k] = s[k]

\* Mutation of Newlines: the newlines of a blanked literal are dropped.
NoNewlines(n) == <<>>

\* b"\n" * n
Newlines(n) == [k \in 1..n |-> NL]

\* The whitespace of bytes.strip() and of \s in a bytes pattern (form feed
\* and vertical tab are not among the bytes of the model).
Whitespace == {" ", "\t", NL, "\r"}

\* The word characters of \w (and so of \b) in a bytes pattern.
WordChars ==
  {"a", "b", "c", "d", "e", "f", "g", "h", "i", "j", "k", "l", "m", "n", "o",
   "p", "q", "r", "s", "t", "u", "v", "w", "x", "y", "z", "A", "B", "C", "D",
   "E", "F", "G", "H", "I", "J", "K", "L", "M", "N", "O", "P", "Q", "R", "S",
   "T", "U", "V", "W", "X", "Y", "Z", "0", "1", "2", "3", "4", "5", "6", "7",
   "8", "9", "_"}

RECURSIVE LStrip(_, _)
LStrip(t, S) == IF t # <<>> /\ Head(t) \in S THEN LStrip(Tail(t), S) ELSE t

RECURSIVE RStrip(_, _)
RStrip(t, S) ==
  IF t # <<>> /\ t[Len(t)] \in S THEN RStrip(SubSeq(t, 1, Len(t) - 1), S) ELSE t

\* bytes.strip(chars)
Strip(t, S) == LStrip(RStrip(t, S), S)

(***************************************************************************)
(* Python's re: a backtracking matcher.  A pattern is a tree of nodes; the *)
(* matcher tries alternatives depth first in the order of the re module    *)
(* (greedy: one more iteration before leaving the loop; lazy: the          *)
(* reverse), and the first success is the match.  A repeated byte class    *)
(* ([^\n]*, \s*, .*?) is one node: the lengths of its run are tried from   *)
(* the longest (greedy) or from the shortest (lazy).  The lazy loop        *)
(* (?:[\\]?.)*? is one node too: see EscPath.  These are the only loops of  *)
(* the patterns matched here.                                              *)
(***************************************************************************)
Set(S) == [t |-> "set", cs |-> S, neg |-> FALSE]
NotSet(S) == [t |-> "set", cs |-> S, neg |-> TRUE]
Lit(c) == Set({c})
AnyByte == NotSet({})          \* . under re.DOTALL
Dot == NotSet({NL})            \* . without re.DOTALL
Word(s) == [t |-> "word", s |-> s]
Cat(xs) == [t |-> "seq", xs |-> xs]
Alt(xs) == [t |-> "alt", xs |-> xs]
\* [S]* and [S]*? for a byte class S.
Star(r) == [t |-> "run", cs |-> r.cs, neg |-> r.neg, greedy |-> TRUE]
LazyStar(r) == [t |-> "run", cs |-> r.cs, neg |-> r.neg, greedy |-> FALSE]
\* (?: [e]? .)*? under re.DOTALL: the lazy loop over "an optional escape
\* byte, then any byte" of string_regex and of IncludeParser.regex.
LazyEsc(e) == [t |-> "lazyesc", e |-> e]
Opt(r) == Alt(<<r, Cat(<<>>)>>)
Plus(r) == Cat(<<r, Star(r)>>)
Grp(n, r) == Cat(<<[t |-> "open", n |-> n], r, [t |-> "close", n |-> n]>>)
Ref(n) == [t |-> "ref", n |-> n]
Bol(multiline) == [t |-> "bol", m |-> multiline]     \* ^
Eol(multiline) == [t |-> "eol", m |-> multiline]     \* $
WordB == [t |-> "wordb"]                             \* \b
Behind(S) == [t |-> "behind", cs |-> S]              \* (?<= [S])
Ahead(S) == [t |-> "ahead", cs |-> S]                \* (?= [S])

NoCaps(n) == [g \in 1..n |-> <<-1, -1>>]
ReFail == [ok |-> FALSE, s |-> -1, e |-> -1, caps |-> <<>>]

IsWordAt(t, i) == i >= 0 /\ i < Len(t) /\ At(t, i) \in WordChars

InClass(t, k, cs, neg) == (At(t, k) \in cs) # neg

\* The number of consecutive bytes of the class from offset i on.
RunLen(t, i, cs, neg) ==
  Cardinality({j \in i..(Len(t) - 1) : \A k \in i..j : InClass(t, k, cs, neg)})

SetMax(S) == CHOOSE x \in S : \A y \in S : y <= x
SetMin(S) == CHOOSE x \in S : \A y \in S : x <= y

\* The offsets at which the loop (?: [e]? .)*? entered at offset i can stop
\* while every escape byte it meets takes the next byte with it (the order
\* in which the re module tries them: [e]? is greedy).  Offset k is one of
\* them when an even number of escape bytes ends just before k, and the end
\* of the text always is (a last escape byte has no byte to take).
EscRun(t, i, k, e) ==
  Cardinality({j \in i..(k - 1) : \A m \in j..(k - 1) : At(t, m) = e})

EscPath(t, i, e) ==
  {k \in i..Len(t) : k = Len(t) \/ EscRun(t, i, k, e) % 2 = 0}

\* The matcher: `stack` is the sequence of nodes still to match from offset
\* i; the result is the first match found in backtracking order.
RECURSIVE ReMatch(_, _, _, _)
ReMatch(t, stack, i, caps) ==
  CASE stack = <<>> -> [ok |-> TRUE, s |-> -1, e |-> i, caps |-> caps]
    [] stack # <<>> /\ stack[1].t = "set" ->
         IF i < Len(t) /\ InClass(t, i, stack[1].cs, stack[1].neg)
           THEN ReMatch(t, Tail(stack), i + 1, caps)
           ELSE ReFail
    [] stack # <<>> /\ stack[1].t = "word" ->
         IF StartsWith(t, stack[1].s, i)
           THEN ReMatch(t, Tail(stack), i + Len(stack[1].s), caps)
           ELSE ReFail
    [] stack # <<>> /\ stack[1].t = "seq" ->
         ReMatch(t, stack[1].xs \o Tail(stack), i, caps)
    [] stack # <<>> /\ stack[1].t = "alt" ->
         IF stack[1].xs = <<>> THEN ReFail
         ELSE LET first == ReMatch(t, <<Head(stack[1].xs)>> \o Tail(stack), i, caps)
              IN  IF first.ok THEN first
                  ELSE ReMatch(t, <<Alt(Tail(stack[1].xs))>> \o Tail(stack), i, caps)
    [] stack # <<>> /\ stack[1].t = "run" ->
         LET n == RunLen(t, i, stack[1].cs, stack[1].neg)
             good == {k \in 0..n : ReMatch(t, Tail(stack), i + k, caps).ok}
         IN  IF stack[1].greedy
               THEN LET most == ReMatch(t, Tail(stack), i + n, caps)
                    IN  IF most.ok THEN most
                        ELSE IF good = {} THEN ReFail
                        ELSE ReMatch(t, Tail(stack), i + SetMax(good), caps)
               ELSE IF good = {} THEN ReFail
               ELSE ReMatch(t, Tail(stack), i + SetMin(good), caps)
    [] stack # <<>> /\ stack[1].t = "lazyesc" ->
         \* The first stop, in increasing order, from which the rest matches;
         \* failing that the loop is re-entered one byte after an escape byte
         \* of the path (that byte now taken as an ordinary byte), the last
         \* such escape byte first.
         LET path == EscPath(t, i, stack[1].e)
             good == {k \in path : ReMatch(t, Tail(stack), k, caps).ok}
             back == {k \in path : k + 1 < Len(t) /\ At(t, k) = stack[1].e
                                     /\ ReMatch(t, stack, k + 1, caps).ok}
         IN  IF good # {} THEN ReMatch(t, Tail(stack), SetMin(good), caps)
             ELSE IF back # {} THEN ReMatch(t, stack, SetMax(back) + 1, caps)
             ELSE ReFail
    [] stack # <<>> /\ stack[1].t = "open" ->
         ReMatch(t, Tail(stack), i, [caps EXCEPT ![stack[1].n] = <<i, -1>>])
    [] stack # <<>> /\ stack[1].t = "close" ->
         ReMatch(t, Tail(stack), i,
                 [caps EXCEPT ![stack[1].n] = <<caps[stack[1].n][1], i>>])
    [] stack # <<>> /\ stack[1].t = "ref" ->
         LET g == Slice(t, caps[stack[1].n][1], caps[stack[1].n][2])
         IN  IF caps[stack[1].n][2] >= 0 /\ StartsWith(t, g, i)
               THEN ReMatch(t, Tail(stack), i + Len(g), caps)
               ELSE ReFail
    [] stack # <<>> /\ stack[1].t = "bol" ->
         IF i = 0 \/ (stack[1].m /\ At(t, i - 1) = NL)
           THEN ReMatch(t, Tail(stack), i, caps) ELSE ReFail
    [] stack # <<>> /\ stack[1].t = "eol" ->
         IF \/ i = Len(t)
            \/ (i = Len(t) - 1 /\ At(t, i) = NL)
            \/ (stack[1].m /\ i < Len(t) /\ At(t, i) = NL)
           THEN ReMatch(t, Tail(stack), i, caps) ELSE ReFail
    [] stack # <<>> /\ stack[1].t = "wordb" ->
         IF IsWordAt(t, i - 1) # IsWordAt(t, i)
           THEN ReMatch(t, Tail(stack), i, caps) ELSE ReFail
    [] stack # <<>> /\ stack[1].t = "behind" ->
         IF i > 0 /\ At(t, i - 1) \in stack[1].cs
           THEN ReMatch(t, Tail(stack), i, caps) ELSE ReFail
    [] stack # <<>> /\ stack[1].t = "ahead" ->
         IF i < Len(t) /\ At(t, i) \in stack[1].cs
           THEN ReMatch(t, Tail(stack), i, caps) ELSE ReFail

\* pattern.match(t, i): a match that starts at offset i.
MatchFrom(m, i) == IF m.ok THEN [m EXCEPT !.s = i] ELSE ReFail

re_match(re, ngroups, t, i) ==
  IF i > Len(t) THEN ReFail
  ELSE MatchFrom(ReMatch(t, <<re>>, i, NoCaps(ngroups)), i)

\* pattern.search(t, i): the leftmost match that starts at or after offset i.
MatchAtFirst(re, ngroups, t, starts) ==
  IF starts = {} THEN ReFail ELSE re_match(re, ngroups, t, SetMin(starts))

re_search(re, ngroups, t, i) ==
  MatchAtFirst(re, ngroups, t,
               {s \in i..Len(t) : ReMatch(t, <<re>>, s, NoCaps(ngroups)).ok})

\* pattern.finditer(t): the successive non-overlapping matches; the search
\* after an empty match resumes one byte further.
RECURSIVE re_finditer(_, _, _, _)
RECURSIVE MatchesFrom(_, _, _, _)
re_finditer(re, ngroups, t, i) ==
  IF i > Len(t) THEN <<>> ELSE MatchesFrom(re, ngroups, t, re_search(re, ngroups, t, i))

\* The match m and those that follow it.
MatchesFrom(re, ngroups, t, m) ==
  IF ~m.ok THEN <<>>
  ELSE <<m>> \o re_finditer(re, ngroups, t, IF m.e = m.s THEN m.e + 1 ELSE m.e)

(***************************************************************************)
(* blockrepl.py                                                            *)
(***************************************************************************)
QUOTE == "\""
APOS == "'"
BSLASH == "\\"

\* The number of bytes c of t[a:b].
CountByte(t, c, a, b) == Cardinality({k \in a..(b - 1) : k < Len(t) /\ At(t, k) = c})

\* find_statement_end: the offset of the first ";" met with `braces` (the
\* "{" minus the "}" seen since pos) not positive, or the error raised at
\* the end of the text.
find_statement_end(t, pos) ==
  LET ends == {i \in pos..(Len(t) - 1) :
                 /\ At(t, i) = ";"
                 /\ CountByte(t, "{", pos, i) - CountByte(t, "}", pos, i) <= 0}
  IN  IF ends = {} THEN [ok |-> FALSE, i |-> -1]
      ELSE [ok |-> TRUE, i |-> SetMin(ends)]

\* find_closing_brace: the offset of the first "}" that brings `braces`
\* (1, plus the "{" and minus the "}" seen since pos) down to 0, or the
\* error raised at the end of the text.
find_closing_brace(t, pos) ==
  LET ends == {i \in pos..(Len(t) - 1) :
                 /\ At(t, i) = "}"
                 /\ 1 + CountByte(t, "{", pos, i) - CountByte(t, "}", pos, i + 1) <= 0}
  IN  IF ends = {} THEN [ok |-> FALSE, i |-> -1]
      ELSE [ok |-> TRUE, i |-> SetMin(ends)]

\* The last alternative of string_regex: group 1 is the literal, group 2
\* its quote, closed by the same quote.
string_literal_regex ==
  Grp(1, Cat(<<Grp(2, Set({QUOTE, APOS})),      \* String start
               LazyEsc(BSLASH),
               Ref(2)>>))                       \* String end

\* The start of the line of offset x.
LineStartOf(t, x) == SetMax({0} \cup {k + 1 : k \in {j \in 0..(x - 1) : At(t, j) = NL}})

\* The quote at offset x lies in a preprocessor line that a match started
\* at offset s can skip: the line starts at or after s and its first
\* non-blank byte is "#" ((?: ^ | (?<= \n)) \s* \# [^\n]*).
InDirective(t, s, x) ==
  LET L == LineStartOf(t, x)
  IN  /\ L >= s
      /\ At(t, SetMin({k \in L..x : At(t, k) \notin Whitespace})) = "#"

\* string_regex.match(t, s) (re.VERBOSE | re.DOTALL).  The leading loop
\* skips preprocessor lines and the bytes that are not quotes, so the match
\* first tries a literal at the first quote outside a preprocessor line, or
\* "$" at the end of the text when there is none; when that literal has no
\* closing quote, backtracking shortens the skipped preprocessor lines from
\* the right, so the literal starts at the last earlier quote that has a
\* closing quote.
LiteralAtLast(t, s, cands) ==
  IF cands = {} THEN ReFail
  ELSE MatchFrom(re_match(string_literal_regex, 2, t, SetMax(cands)), s)

LiteralUpTo(t, s, free) ==
  IF free = {} THEN [ok |-> TRUE, s |-> s, e |-> Len(t), caps |-> NoCaps(2)]
  ELSE LiteralAtLast(t, s, {x \in s..SetMin(free) :
                               /\ At(t, x) \in {QUOTE, APOS}
                               /\ re_match(string_literal_regex, 2, t, x).ok})

string_regex_match(t, s) ==
  LiteralUpTo(t, s, {x \in s..(Len(t) - 1) :
                       At(t, x) \in {QUOTE, APOS} /\ ~InDirective(t, s, x)})

\* string_regex.search(t, i): the match at the first offset that has one
\* (the end of the text always has).
string_regex_search(t, i) ==
  string_regex_match(t, SetMin({k \in i..Len(t) : string_regex_match(t, k).ok}))

\* string_regex.finditer(t), from offset i on.
RECURSIVE string_regex_finditer(_, _)
RECURSIVE StringMatchesFrom(_, _)
string_regex_finditer(t, i) ==
  IF i > Len(t) THEN <<>>
  ELSE StringMatchesFrom(t, string_regex_search(t, i))

StringMatchesFrom(t, m) ==
  <<m>> \o string_regex_finditer(t, IF m.e = m.s THEN m.e + 1 ELSE m.e)

\* get_strings: the (start, end) of group 1 of every match that has one.
Group1(ms) == [k \in 1..Len(ms) |-> ms[k].caps[1]]

get_strings(t) ==
  Group1(SelectSeq(string_regex_finditer(t, 0), LAMBDA m : m.caps[1][1] >= 0))

\* replace_strings: the loop over get_strings(text), from string k on, with
\* `p` the end of the previous string.
RECURSIVE replace_strings_from(_, _, _, _)
replace_strings_from(t, strings, k, p) ==
  IF k > Len(strings) THEN Slice(t, p, Len(t))
  ELSE LET start == strings[k][1]
           end == strings[k][2]
       IN  Slice(t, p, start + 1)
             \o Newlines(CountNL(t, start, end))
             \o Slice(t, end - 1, end)
             \o replace_strings_from(t, strings, k + 1, end)

replace_strings(t) == replace_strings_from(t, get_strings(t), 1, 0)

\* OrRegex: the alternatives in order, each in its own group; search gives
\* the type (the index of the group that matched) and the match.
OrRegex(exprs) == Alt([k \in 1..Len(exprs) |-> Grp(k, exprs[k])])

TypedMatch(exprs, m) ==
  IF ~m.ok THEN [extype |-> 0, s |-> -1, e |-> -1]
  ELSE [extype |-> CHOOSE k \in 1..Len(exprs) :
                     /\ m.caps[k][1] >= 0
                     /\ \A j \in 1..(k - 1) : m.caps[j][1] < 0,
        s |-> m.s, e |-> m.e]

OrRegexSearch(exprs, t, start) ==
  TypedMatch(exprs, re_search(OrRegex(exprs), Len(exprs), t, start))

\* BlockParser.regex (re.MULTILINE | re.DOTALL) and the names of its types.
BlockTypeNames ==
  <<"typedef", "struct", "enum", "union", "openbrace", "assignment", "preproc">>

BlockParserRegex ==
  <<Cat(<<WordB, Word(<<"t", "y", "p", "e", "d", "e", "f">>), Set(Whitespace)>>),
    Cat(<<WordB, Word(<<"s", "t", "r", "u", "c", "t">>), Set(Whitespace)>>),
    Cat(<<WordB, Word(<<"e", "n", "u", "m">>), Set(Whitespace)>>),
    Cat(<<WordB, Word(<<"u", "n", "i", "o", "n">>), Set(Whitespace)>>),
    Lit("{"),
    Cat(<<WordB, Lit("="), WordB>>),
    Cat(<<Bol(TRUE), Lit("#"), LazyStar(AnyByte), Eol(TRUE), Opt(Lit(NL))>>)>>

statement_types == {"typedef", "struct", "enum", "union", "assignment"}

\* BlockParser(text): the object, with `err` set once parse_iter has raised
\* BlockReplacementParseError.
BlockParser(t) == [text |-> t, pos |-> 0, blocks |-> <<>>, err |-> FALSE]

\* BlockParser.parse_iter: the skip to the end of a statement, the record
\* of a block, and the dispatch on the type of the match m.
SkipStatement(self, m, r) ==
  IF r.ok THEN [self EXCEPT !.pos = r.i + 1]
  ELSE [self EXCEPT !.pos = m.e, !.err = TRUE]

RecordBlock(self, m, r) ==
  IF r.ok THEN [self EXCEPT !.pos = r.i, !.blocks = Append(@, <<m.e, r.i>>)]
  ELSE [self EXCEPT !.pos = m.e, !.err = TRUE]

BlockParserOn(self, m) ==
  CASE m.extype = 0 -> [self EXCEPT !.pos = Len(self.text)]
    [] m.extype # 0 /\ BlockTypeNames[m.extype] \in statement_types ->
         SkipStatement(self, m, find_statement_end(self.text, m.e))
    [] m.extype # 0 /\ BlockTypeNames[m.extype] = "openbrace" ->
         RecordBlock(self, m, find_closing_brace(self.text, m.e))
    [] OTHER -> [self EXCEPT !.pos = m.e]

BlockParser_parse_iter(self) ==
  BlockParserOn(self, OrRegexSearch(BlockParserRegex, self.text, self.pos))

\* Mutation of non_preproc_regex: [^\n] for [^#\n], so that the lines that
\* start with "#" are matched too.
any_line_regex ==
  Cat(<<Alt(<<Bol(FALSE), Behind({NL})>>),
        NotSet({NL}), LazyStar(NotSet({NL})),
        Alt(<<Eol(FALSE), Ahead({NL})>>)>>)

\* non_preproc_regex (re.VERBOSE)
non_preproc_regex ==
  Cat(<<Alt(<<Bol(FALSE), Behind({NL})>>),        \* Start of line
        NotSet({"#", NL}), LazyStar(NotSet({NL})),  \* Non-preproc line
        Alt(<<Eol(FALSE), Ahead({NL})>>)>>)       \* End of line

\* pattern.sub(b"", t): t without the matches of the pattern.
RECURSIVE CutMatches(_, _, _, _)
CutMatches(t, ms, k, p) ==
  IF k > Len(ms) THEN Slice(t, p, Len(t))
  ELSE Slice(t, p, ms[k].s) \o CutMatches(t, ms, k + 1, ms[k].e)

re_sub_empty(re, ngroups, t) == CutMatches(t, re_finditer(re, ngroups, t, 0), 1, 0)

replace_non_preproc(t) == re_sub_empty(non_preproc_regex, 0, t)

\* replace_blocks_from_list: the loop over the blocks, from block k on.
RECURSIVE replace_blocks_from(_, _, _, _)
replace_blocks_from(t, blks, k, p) ==
  IF k > Len(blks) THEN Slice(t, p, Len(t))
  ELSE Slice(t, p, blks[k][1])
         \o replace_non_preproc(Slice(t, blks[k][1], blks[k][2]))
         \o replace_blocks_from(t, blks, k + 1, blks[k][2])

replace_blocks_from_list(t, blks) == replace_blocks_from(t, blks, 1, 0)

(***************************************************************************)
(* precpp.py                                                               *)
(***************************************************************************)
INCLUDE_COMMENT == <<"@", "i", "n", "c", "l", "u", "d", "e">>

HEADER_MACROS ==
  <<<<"H", "E", "A", "D", "E", "R">>,
    <<"P", "R", "I", "V", "A", "T", "E", "_", "H", "E", "A", "D", "E", "R">>,
    <<"A", "N", "Y", "_", "H", "E", "A", "D", "E", "R">>>>

\* coords_from_pos
coords_from_pos(t, p) ==
  <<CountNL(t, 0, p) + 1,
    p - SetMax({0} \cup {k + 1 : k \in {j \in 0..(p - 1) : j < Len(t) /\ At(t, j) = NL}}) + 1>>

\* IncludeParser.regex (re.DOTALL) and the names of its types.
IncludeTypeNames == <<"string", "char", "preproc", "line_comment", "block_comment">>

\* A regex whose directives take the newline of their line too
IncludeParserRegex_with_newline ==
  <<Cat(<<Lit(QUOTE), LazyEsc(BSLASH), Lit(QUOTE)>>),
    Cat(<<Lit(APOS), LazyEsc(BSLASH), Lit(APOS)>>),
    Cat(<<Alt(<<Bol(FALSE), Behind({NL})>>),
          Star(Set(Whitespace \ {NL})), Lit("#"), Star(NotSet({NL})), Opt(Lit(NL))>>),
    Cat(<<Word(<<"/", "/">>), Star(NotSet({NL}))>>),
    Cat(<<Word(<<"/", "*">>), LazyStar(AnyByte), Word(<<"*", "/">>)>>)>>

IncludeParserRegex ==
  <<Cat(<<Lit(QUOTE), LazyEsc(BSLASH), Lit(QUOTE)>>),
    Cat(<<Lit(APOS), LazyEsc(BSLASH), Lit(APOS)>>),
    Cat(<<Alt(<<Bol(FALSE), Behind({NL})>>),
          Star(Set(Whitespace \ {NL})), Lit("#"), Star(NotSet({NL}))>>),
    Cat(<<Word(<<"/", "/">>), Star(NotSet({NL}))>>),
    Cat(<<Word(<<"/", "*">>), LazyStar(AnyByte), Word(<<"*", "/">>)>>)>>

preproc_if_regex ==
  Cat(<<Alt(<<Word(<<"i", "f">>), Word(<<"i", "f", "d", "e", "f">>),
              Word(<<"i", "f", "n", "d", "e", "f">>)>>),
        Set(Whitespace)>>)

preproc_endif_regex ==
  Cat(<<Word(<<"e", "n", "d", "i", "f">>), Alt(<<Set(Whitespace), Eol(FALSE)>>)>>)

\* An include pattern that asks for no whitespace after the word
preproc_include_regex_no_blank == Word(<<"i", "n", "c", "l", "u", "d", "e">>)

preproc_include_regex ==
  Cat(<<Word(<<"i", "n", "c", "l", "u", "d", "e">>), Set(Whitespace)>>)

\* preproc_header_block_regex (re.VERBOSE | re.MULTILINE)
preproc_header_block_regex ==
  Cat(<<Word(<<"i", "f", "d", "e", "f">>), Star(Set(Whitespace)),
        Grp(1, Alt([k \in 1..Len(HEADER_MACROS) |-> Word(HEADER_MACROS[k])])),
        Star(Set(Whitespace)), Eol(TRUE)>>)

\* IncludeParser(text): the object, with `err` set once error() has raised
\* PreCPPParseError and `coords` the position it reports.
IncludeParser(t) ==
  [text |-> t, pos |-> 0, preproc_level |-> 0,
   preproc_is_header_block_stack |-> <<FALSE>>, includes |-> <<>>,
   err |-> FALSE, coords |-> <<0, 0>>]

IncludeParser_preproc_if(self, preproc_start) ==
  [self EXCEPT
     !.preproc_level = @ + 1,
     !.preproc_is_header_block_stack =
        Append(@, re_match(preproc_header_block_regex, 1, self.text, preproc_start).ok)]

\* A preproc_endif that takes an #endif without an open conditional
preproc_endif_no_error(self) ==
  IF self.preproc_level - 1 < 0 THEN self
  ELSE [self EXCEPT !.preproc_level = @ - 1,
                    !.preproc_is_header_block_stack = SubSeq(@, 1, Len(@) - 1)]

\* A preproc_endif that pops before it checks the level
preproc_endif_pops_first(self) ==
  IF self.preproc_level - 1 < 0
    THEN [self EXCEPT !.preproc_level = @ - 1, !.err = TRUE,
                      !.preproc_is_header_block_stack = SubSeq(@, 1, Len(@) - 1),
                      !.coords = coords_from_pos(self.text, self.pos)]
    ELSE [self EXCEPT !.preproc_level = @ - 1,
                      !.preproc_is_header_block_stack = SubSeq(@, 1, Len(@) - 1)]

IncludeParser_preproc_endif(self) ==
  IF self.preproc_level - 1 < 0
    THEN [self EXCEPT !.preproc_level = @ - 1, !.err = TRUE,
                      !.coords = coords_from_pos(self.text, self.pos)]
    ELSE [self EXCEPT !.preproc_level = @ - 1,
                      !.preproc_is_header_block_stack = SubSeq(@, 1, Len(@) - 1)]

in_header_block(self) ==
  self.preproc_is_header_block_stack[Len(self.preproc_is_header_block_stack)]

\* IncludeParser.parse_iter from `preproc_start` on, for a match m of type
\* preproc (self.pos is already the end of m).
IncludeParserPreproc(self, m, preproc_start) ==
  IF re_match(preproc_if_regex, 0, self.text, preproc_start).ok
    THEN IncludeParser_preproc_if(self, preproc_start)
  ELSE IF re_match(preproc_endif_regex, 0, self.text, preproc_start).ok
    THEN IncludeParser_preproc_endif(self)
  ELSE IF ~re_match(preproc_include_regex, 0, self.text, preproc_start).ok
    THEN self
  ELSE IF ~in_header_block(self)
    THEN [self EXCEPT !.includes = Append(@, <<m.s, self.pos>>)]
  ELSE self

IncludeParserOn(self, m) ==
  IF m.extype = 0 THEN [self EXCEPT !.pos = Len(self.text)]
  ELSE IF IncludeTypeNames[m.extype] # "preproc" THEN [self EXCEPT !.pos = m.e]
  ELSE IncludeParserPreproc([self EXCEPT !.pos = m.e], m,
         SetMin({k \in m.s..(Len(self.text) - 1) : At(self.text, k) = "#"}) + 1)

IncludeParser_parse_iter(self) ==
  IncludeParserOn(self, OrRegexSearch(IncludeParserRegex, self.text, self.pos))

\* keep_include_regex (re.VERBOSE); group 1 is the comment.
keep_include_regex ==
  Cat(<<Grp(1, Alt(<<Grp(2, Cat(<<Word(<<"/", "/">>), Star(Set(Whitespace)),
                                  Word(INCLUDE_COMMENT)>>)),
                     Grp(3, Cat(<<Word(<<"/", "*">>), Star(Set(Whitespace)),
                                  Word(INCLUDE_COMMENT), Star(Set(Whitespace)),
                                  Word(<<"*", "/">>)>>))>>)),
        Star(Set(Whitespace)), Eol(FALSE)>>)

\* Mutation of should_keep_include: no annotation keeps an include.
never_keep_include(line) == FALSE

should_keep_include(line) == re_search(keep_include_regex, 3, line, 0).ok

\* replace_includes: the loop over the includes, from include k on, with
\* `p` the end of the last include removed.
RECURSIVE replace_includes_from(_, _, _, _)
replace_includes_from(t, incs, k, p) ==
  IF k > Len(incs) THEN Slice(t, p, Len(t))
  ELSE IF should_keep_include(Slice(t, incs[k][1], incs[k][2]))
    THEN replace_includes_from(t, incs, k + 1, p)
  ELSE Slice(t, p, incs[k][1]) \o replace_includes_from(t, incs, k + 1, incs[k][2])

(***************************************************************************)
(* parser.py: Parser                                                       *)
(***************************************************************************)
\* Parser.__init__: the text is made to end with a newline.
ParserText(t) == IF Len(t) > 0 /\ t[Len(t)] = NL THEN t ELSE t \o <<NL>>

\* build_line_map: the offsets at which the lines start, in order: 0 and
\* the offset after each newline.
build_line_map(t) == {0} \cup {k + 1 : k \in {j \in 0..(Len(t) - 1) : At(t, j) = NL}}

\* linemap[max(lineno, 1) - 1]
line_to_pos(t, lineno) ==
  CHOOSE p \in build_line_map(t) :
    Cardinality({q \in build_line_map(t) : q < p}) = (IF lineno > 1 THEN lineno ELSE 1) - 1

\* bisect_left(linemap, pos): a line too early for an offset that starts a line.
pos_to_line_bisect_left(t, pos) == Cardinality({q \in build_line_map(t) : q < pos})

\* bisect_right(linemap, pos)
pos_to_line(t, pos) == Cardinality({q \in build_line_map(t) : q <= pos})

\* The end of the slice text[0:pos]: a negative pos counts from the end.
SliceEnd(t, pos) ==
  IF pos >= 0 THEN (IF pos > Len(t) THEN Len(t) ELSE pos)
  ELSE IF pos + Len(t) < 0 THEN 0 ELSE pos + Len(t)

\* text.rfind(b"\n", 0, pos) + 1
get_line_start(t, pos) ==
  SetMax({0} \cup {k + 1 : k \in {j \in 0..(SliceEnd(t, pos) - 1) : At(t, j) = NL}})

\* text.index(b"\n", pos), or len(text)
get_line_end(t, pos) ==
  SetMin({Len(t)} \cup {j \in pos..(Len(t) - 1) : At(t, j) = NL})

\* Parser.location at offset i: (line, col)
LocationLine(t, line, i) == <<line, i - line_to_pos(t, line) + 1>>
location(t, i) == LocationLine(t, pos_to_line(t, i), i)

\* The messages of Parser.error: the text and the string searched for.
MsgEOF == <<"Unexpected end of file", "">>
MsgEOFSearching(s) == <<"Unexpected end of file while searching for ", s>>

(***************************************************************************)
(* cfile.py: SimpleCParser.  A reader takes the text and the offset        *)
(* self.i and gives [ok, i]: the offset it leaves in self.i, or, when it   *)
(* calls error(), ok = FALSE with the offset self.i has then and the       *)
(* message.                                                                *)
(***************************************************************************)
GUARD_COMMENT == <<"@", "g", "u", "a", "r", "d">>

\* re_preproc_if
re_preproc_if ==
  Cat(<<Alt(<<Word(<<"i", "f">>), Word(<<"i", "f", "d", "e", "f">>),
              Word(<<"i", "f", "n", "d", "e", "f">>)>>),
        Set(Whitespace)>>)

\* re_preproc_next (re.MULTILINE): the types start (1) and end (2).
re_preproc_next ==
  <<Cat(<<Bol(TRUE), Star(Set(Whitespace \ {NL})), Lit("#"),
          Alt(<<Word(<<"i", "f">>), Word(<<"i", "f", "d", "e", "f">>),
                Word(<<"i", "f", "n", "d", "e", "f">>)>>),
          Set(Whitespace)>>),
    Cat(<<Bol(TRUE), Star(Set(Whitespace \ {NL})),
          Word(<<"#", "e", "n", "d", "i", "f">>), WordB>>)>>

\* re_rest_of_line.match(text, i).end(): (\\. | [^\\\n])* \n? always
\* matches.  The loop takes an escape byte together with the byte after it
\* unless that byte is the newline ("." is not DOTALL): it stops at the
\* first newline e, or at the escape byte just before e when an odd number
\* of escape bytes ends there.
RestOfLineEnd(t, i, e) ==
  IF EscRun(t, i, e, BSLASH) % 2 = 1 THEN e - 1
  ELSE IF e < Len(t) THEN e + 1 ELSE e

read_rest_of_line(t, i) == RestOfLineEnd(t, i, get_line_end(t, i))

\* re_rest_of_string / re_rest_of_char (re.DOTALL): (\\. | [^\\q])* q
\* ends after the first byte q that no escape byte takes with it.
RestOfLiteral(t, i, q) ==
  {k \in i..(Len(t) - 1) : At(t, k) = q /\ EscRun(t, i, k, BSLASH) % 2 = 0}

LiteralEnd(t, i, ends, msg) ==
  IF ends = {} THEN [ok |-> FALSE, i |-> i, msg |-> msg]
  ELSE [ok |-> TRUE, i |-> SetMin(ends) + 1]

\* a literal whose escape bytes are not honoured: it ends at the first quote
string_literal_no_escape(t, i) ==
  LiteralEnd(t, i, {k \in i..(Len(t) - 1) : At(t, k) = QUOTE},
             <<"Unterminated string literal", "">>)

string_literal(t, i) ==
  LiteralEnd(t, i, RestOfLiteral(t, i, QUOTE), <<"Unterminated string literal", "">>)

char_literal(t, i) ==
  LiteralEnd(t, i, RestOfLiteral(t, i, APOS), <<"Unterminated character literal", "">>)

\* line_comment
line_comment(t, i) == [ok |-> TRUE, i |-> read_rest_of_line(t, i)]

\* block_comment: advance(1) until accept(b"*/"); accept raises at the end
\* of the text.
BlockCommentEnd(t, ends) ==
  IF ends = {} THEN [ok |-> FALSE, i |-> Len(t), msg |-> MsgEOFSearching("*/")]
  ELSE [ok |-> TRUE, i |-> SetMin(ends) + 2]

\* a block comment that the end of the text closes
block_comment_to_end(t, i) ==
  [ok |-> TRUE,
   i |-> SetMin({Len(t)} \cup {k + 2 : k \in {j \in i..(Len(t) - 2) :
                                  At(t, j) = "*" /\ At(t, j + 1) = "/"}})]

block_comment(t, i) ==
  BlockCommentEnd(t, {k \in i..(Len(t) - 2) : At(t, k) = "*" /\ At(t, k + 1) = "/"})

\* non_cond_preproc
non_cond_preproc(t, i) == get_line_end(t, i)

\* cond_preproc, entered with self.i = i: the offset after the matching
\* #endif.  Every nested conditional directive is read by a nested call,
\* entered at its "#".
RECURSIVE cond_preproc(_, _)
RECURSIVE CondPreprocNext(_, _)
CondPreprocAfter(t, r) == IF r.ok THEN CondPreprocNext(t, r.i) ELSE r

\* A cond_preproc that does not descend into a nested conditional
CondPreprocOn_flat(t, p, m) ==
  IF m.extype = 0 THEN [ok |-> FALSE, i |-> p, msg |-> <<"Expected '#endif'", "">>]
  ELSE IF m.extype = 2 THEN [ok |-> TRUE, i |-> m.e]
  ELSE CondPreprocNext(t, m.e)

CondPreprocOn(t, p, m) ==
  IF m.extype = 0 THEN [ok |-> FALSE, i |-> p, msg |-> <<"Expected '#endif'", "">>]
  ELSE IF m.extype = 2 THEN [ok |-> TRUE, i |-> m.e]
  ELSE CondPreprocAfter(t, cond_preproc(t, m.s + RunLen(t, m.s, {"#"}, TRUE)))

CondPreprocNext(t, p) == CondPreprocOn(t, p, OrRegexSearch(re_preproc_next, t, p))

cond_preproc(t, i) == CondPreprocNext(t, read_rest_of_line(t, i))

\* preproc: [ok, i, cond]; a conditional directive spans (start, i) with
\* start the offset preproc is entered at.
preproc(t, i) ==
  IF re_match(re_preproc_if, 0, t, i).ok
    THEN [cond |-> TRUE] @@ cond_preproc(t, i)
  ELSE [cond |-> FALSE, ok |-> TRUE, i |-> non_cond_preproc(t, i)]

\* The bytes read_single does not advance over one at a time.
IsUnitStart(t, k) ==
  \/ At(t, k) \in {"#", QUOTE, APOS, "(", "{", "["}
  \/ At(t, k) = "/" /\ k + 1 < Len(t) /\ At(t, k + 1) \in {"/", "*"}

\* `while <the byte at self.i is not one of stops>: read_single()`, the loop
\* of read_until_match, find_var_decl_end and find_func_decl_end: the offset
\* of the byte of `stops` it ends at.  get() and accept() raise at the end
\* of the text.  On a byte that starts no unit read_single advances by one,
\* so the loop goes on at the next byte of `stops` or start of a unit.
RECURSIVE ReadUntil(_, _, _, _)
RECURSIVE read_single(_, _)
ReadUntilAfter(t, r, stops, msg) == IF r.ok THEN ReadUntil(t, r.i, stops, msg) ELSE r

ReadUntilAt(t, j, stops, msg) ==
  IF j >= Len(t) THEN [ok |-> FALSE, i |-> Len(t), msg |-> msg]
  ELSE IF At(t, j) \in stops THEN [ok |-> TRUE, i |-> j]
  ELSE ReadUntilAfter(t, read_single(t, j), stops, msg)

ReadUntil(t, i, stops, msg) ==
  ReadUntilAt(t, SetMin({Len(t)} \cup {k \in i..(Len(t) - 1) :
                                        At(t, k) \in stops \/ IsUnitStart(t, k)}),
              stops, msg)

\* read_until_match(string) for the one-byte strings of paren, brace and
\* bracket: accept() takes the closing byte.
Accepted(r) == IF r.ok THEN [r EXCEPT !.i = r.i + 1] ELSE r
read_until_match(t, i, c) == Accepted(ReadUntil(t, i, {c}, MsgEOFSearching(c)))

\* read_single, entered with self.i = i < len(text)
read_single(t, i) ==
  IF StartsWith(t, <<"/", "/">>, i) THEN line_comment(t, i + 2)
  ELSE IF StartsWith(t, <<"/", "*">>, i) THEN block_comment(t, i + 2)
  ELSE CASE At(t, i) = "#" -> preproc(t, i + 1)
         [] At(t, i) = QUOTE -> string_literal(t, i + 1)
         [] At(t, i) = APOS -> char_literal(t, i + 1)
         [] At(t, i) = "(" -> read_until_match(t, i + 1, ")")
         [] At(t, i) = "{" -> read_until_match(t, i + 1, "}")
         [] At(t, i) = "[" -> read_until_match(t, i + 1, "]")
         [] OTHER -> [ok |-> TRUE, i |-> i + 1]

\* find_var_decl_end / find_func_decl_end, entered with self.i = start:
\* [ok, i, position, is_definition] with DeclEnd(position, is_definition).
DeclEnd(t, r, def) ==
  IF r.ok THEN [ok |-> TRUE, i |-> r.i + 1, position |-> r.i,
                is_definition |-> At(t, r.i) = def]
  ELSE r

find_var_decl_end(t, start) ==
  DeclEnd(t, ReadUntil(t, start, {"=", ";"}, MsgEOF), "=")

find_func_decl_end(t, start) ==
  DeclEnd(t, ReadUntil(t, start, {"{", ";"}, MsgEOF), "{")

\* SimpleCParser(text) inside CSourceFile(text): the object, with `err` set
\* once error() has raised CFileParseError and (line, col) what it reports.
CSourceFile(t) ==
  [text |-> ParserText(t), i |-> 0, comments |-> <<>>, preproc_ifs |-> <<>>,
   private |-> FALSE, err |-> FALSE, msg |-> <<"", "">>, line |-> 0, col |-> 0]

\* Parser.error, raised by a reader with self.i = r.i
ParserError(self, r) ==
  [self EXCEPT !.i = r.i, !.err = TRUE, !.msg = r.msg,
               !.line = location(self.text, r.i)[1],
               !.col = location(self.text, r.i)[2]]

\* top_block_comment, the comment text starting at `start`
top_block_comment(self, start, r) ==
  IF ~r.ok THEN ParserError(self, r)
  ELSE [self EXCEPT !.i = r.i, !.comments = Append(@, <<start, r.i - 2>>)]

\* top_line_comment
top_line_comment(self, start, r) ==
  [self EXCEPT !.i = r.i, !.comments = Append(@, <<start, r.i - 1>>)]

\* top_preproc
top_preproc(self, start, r) ==
  IF ~r.ok THEN ParserError(self, r)
  ELSE IF r.cond
    THEN [self EXCEPT !.i = r.i, !.preproc_ifs = Append(@, <<start, r.i>>)]
  ELSE [self EXCEPT !.i = r.i]

\* read_single at the top level
TopReadSingle(self, r) ==
  IF ~r.ok THEN ParserError(self, r) ELSE [self EXCEPT !.i = r.i]

\* parse_metadata_iter
parse_metadata_iter(self) ==
  IF StartsWith(self.text, <<"/", "*">>, self.i)
    THEN top_block_comment(self, self.i + 2, block_comment(self.text, self.i + 2))
  ELSE IF StartsWith(self.text, <<"/", "/">>, self.i)
    THEN top_line_comment(self, self.i + 2, line_comment(self.text, self.i + 2))
  ELSE IF At(self.text, self.i) = "#"
    THEN top_preproc(self, self.i + 1, preproc(self.text, self.i + 1))
  ELSE TopReadSingle(self, read_single(self.text, self.i))

\* CSourceFile.find_var_decl_end / find_func_decl_end: setpos(startpos) and
\* the search; the object after the call.
AfterFind(self, r) ==
  IF ~r.ok THEN ParserError(self, r) ELSE [self EXCEPT !.i = r.i]

\* bytes.splitlines(keepends=True): the lines of t from offset i, each with
\* its line end (\n, \r or \r\n).
LineBreakEnd(t, k) ==
  IF At(t, k) = "\r" /\ k + 1 < Len(t) /\ At(t, k + 1) = NL THEN k + 2 ELSE k + 1

RECURSIVE splitlines(_, _)
SplitAt(t, i, breaks) ==
  IF breaks = {} THEN <<Slice(t, i, Len(t))>>
  ELSE <<Slice(t, i, LineBreakEnd(t, SetMin(breaks)))>>
       \o splitlines(t, LineBreakEnd(t, SetMin(breaks)))

splitlines(t, i) ==
  IF i >= Len(t) THEN <<>>
  ELSE SplitAt(t, i, {k \in i..(Len(t) - 1) : At(t, k) \in {NL, "\r"}})

\* remove_leading_indentation: the spaces and tabs that start the text are
\* removed from the start of every line that starts with them
\* (re.sub(rb"^" + whitespace, rb"", bytestr, flags=re.MULTILINE): a line
\* starts after a \n).
RECURSIVE RemovePrefixes(_, _, _)
RemovePrefixes(t, i, ws) ==
  IF i >= Len(t) THEN <<>>
  ELSE Slice(t, IF StartsWith(t, ws, i) THEN i + Len(ws) ELSE i, get_line_end(t, i) + 1)
       \o RemovePrefixes(t, get_line_end(t, i) + 1, ws)

remove_leading_indentation(bytestr) ==
  RemovePrefixes(bytestr, 0, Slice(bytestr, 0, RunLen(bytestr, 0, {" ", "\t"}, FALSE)))

\* normalize_indentation: the unit is the run of tabs, or of spaces, that
\* starts the reference line; the indent of a line is the longest run of
\* whole units that starts it, in bytes.
IndentationUnit(reference_line) ==
  IF Len(reference_line) > 0 /\ reference_line[1] = "\t"
    THEN Slice(reference_line, 0, RunLen(reference_line, 0, {"\t"}, FALSE))
  ELSE Slice(reference_line, 0, RunLen(reference_line, 0, {" "}, FALSE))

IndentOf(line, unit) ==
  Len(unit) * Cardinality({n \in 1..(Len(line) \div Len(unit)) :
                            \A j \in 0..(n - 1) : StartsWith(line, unit, j * Len(unit))})

RECURSIVE Repeat(_, _)
Repeat(unit, n) == IF n = 0 THEN <<>> ELSE unit \o Repeat(unit, n - 1)

\* the lines with their indents as they are
NormalizeLines_keep_sizes(lines, unit) == Concat(lines)

NormalizeLines(lines, unit) ==
  Concat([k \in 1..Len(lines) |->
            Repeat(unit, Cardinality({IndentOf(lines[j], unit) : j \in 1..Len(lines)}
                                     \cap 0..(IndentOf(lines[k], unit) - 1)))
            \o Slice(lines[k], IndentOf(lines[k], unit), Len(lines[k]))])

normalize_indentation(bytestr, reference_line) ==
  IF IndentationUnit(reference_line) = <<>> THEN remove_leading_indentation(bytestr)
  ELSE NormalizeLines(splitlines(bytestr, 0), IndentationUnit(reference_line))

\* get_next_source_line: re_source_line.search(text, i).group(0), the first
\* line that starts at or after offset i and holds a byte that is not
\* whitespace; <<>> stands for None.
SourceLineAt(t, starts) ==
  IF starts = {} THEN <<>> ELSE Slice(t, SetMin(starts), get_line_end(t, SetMin(starts)))

get_next_source_line(t, i) ==
  SourceLineAt(t, {s \in build_line_map(t) :
                     /\ s >= i
                     /\ \E k \in s..(get_line_end(t, s) - 1) : At(t, k) \notin Whitespace})

\* get_comment_pos_before: the binary search over self.comments; the result
\* is the index of the comment returned, 0 for None.
RECURSIVE CommentSearch(_, _, _, _)
CommentSearchAt(comments, pos, start, end, middle) ==
  IF comments[middle + 1][2] < pos THEN CommentSearch(comments, pos, middle + 1, end)
  ELSE IF comments[middle + 1][2] > pos THEN CommentSearch(comments, pos, start, middle)
  ELSE middle

CommentSearch(comments, pos, start, end) ==
  IF start >= end THEN start
  ELSE CommentSearchAt(comments, pos, start, end, (start + end) \div 2)

\* A search that also takes the span that ends at pos
get_comment_pos_at_or_before(self, pos) ==
  Cardinality({j \in 1..Len(self.comments) : self.comments[j][2] <= pos})

get_comment_pos_before(self, pos) ==
  CommentSearch(self.comments, pos, 0, Len(self.comments))

\* A get_comment_pos_directly_before that takes the comment before pos
\* wherever it ends
AnyCommentBefore(self, pos, k) == k

\* get_comment_pos_directly_before
DirectlyBefore(self, pos, k) ==
  IF k = 0 THEN 0
  ELSE IF get_line_start(self.text, get_line_start(self.text, pos) - 1)
            > self.comments[k][2] THEN 0
  ELSE k

get_comment_pos_directly_before(self, pos) ==
  DirectlyBefore(self, pos, get_comment_pos_before(self, pos))

\* get_min_comment_start_directly_before: the loop from `start`; -1 stands
\* for None, and -2 for a loop that does not reach a smaller start and so never
\* ends.
RECURSIVE MinCommentStart(_, _, _)
MinCommentStartAt(self, pos, start, k) ==
  IF k = 0 THEN (IF start = pos THEN -1 ELSE start)
  ELSE IF self.comments[k][1] >= start THEN -2
  ELSE MinCommentStart(self, pos, self.comments[k][1])

MinCommentStart(self, pos, start) ==
  MinCommentStartAt(self, pos, start, get_comment_pos_directly_before(self, start))

get_min_comment_start_directly_before(self, pos) == MinCommentStart(self, pos, pos)

\* get_comment_before
CommentFrom(self, pos, start) ==
  IF start < 0 THEN <<>>
  ELSE Slice(self.text, get_line_start(self.text, start), get_line_start(self.text, pos))

get_comment_before(self, lineno) ==
  CommentFrom(self, line_to_pos(self.text, lineno),
              get_min_comment_start_directly_before(self, line_to_pos(self.text, lineno)))

\* get_var_decl_start / get_func_decl_start: the text up to the end found,
\* stripped (the search has not failed).
DeclStart(self, lineno, r) ==
  Strip(Slice(self.text, line_to_pos(self.text, lineno), r.position), Whitespace)

\* make_func_decl, r the result of find_func_decl_end
make_func_decl(self, def_lineno, r) ==
  remove_leading_indentation(get_comment_before(self, def_lineno))
  \o normalize_indentation(DeclStart(self, def_lineno, r),
                           get_next_source_line(self.text, r.i))
  \o <<";", NL>>

\* make_plain_var_decl, r the result of find_var_decl_end
make_plain_var_decl(self, def_lineno, r) ==
  remove_leading_indentation(
    get_comment_before(self, def_lineno) \o DeclStart(self, def_lineno, r) \o <<";", NL>>)

\* make_extern_var_decl, r the result of find_var_decl_end
make_extern_var_decl(self, def_lineno, r) ==
  remove_leading_indentation(
    get_comment_before(self, def_lineno) \o <<"e", "x", "t", "e", "r", "n", " ">>
    \o DeclStart(self, def_lineno, r) \o <<";", NL>>)

\* A match that takes the blocks of both passes
header_preproc_match_any_pass(self, string) ==
  /\ StartsWith(string, <<"i", "f", "d", "e", "f", " ">>, 0)
  /\ Slice(string, 6, Len(string)) \in {HEADER_MACROS[1], HEADER_MACROS[2], HEADER_MACROS[3]}

\* A match that takes the blocks of the public pass in every pass
header_preproc_match_public_only(self, string) ==
  /\ StartsWith(string, <<"i", "f", "d", "e", "f", " ">>, 0)
  /\ Slice(string, 6, Len(string)) \in {HEADER_MACROS[3], HEADER_MACROS[1]}

\* header_preproc_match: re.fullmatch(rb"ifdef (.*)", string) with group 1
\* one of ANY_HEADER and (PRIVATE_HEADER if self.private else HEADER)
header_preproc_match(self, string) ==
  /\ StartsWith(string, <<"i", "f", "d", "e", "f", " ">>, 0)
  /\ NL \notin {string[k] : k \in 1..Len(string)}
  /\ Slice(string, 6, Len(string))
       \in {HEADER_MACROS[3], IF self.private THEN HEADER_MACROS[2] ELSE HEADER_MACROS[1]}

\* get_header_chunks: the chunk of the region (start_pos, end_pos)
HeaderChunk(self, start_pos, end_pos) ==
  remove_leading_indentation(
    Strip(Slice(self.text, get_line_end(self.text, start_pos) + 1,
                get_line_start(self.text, end_pos)), {NL}) \o <<NL>>)

\* get_header_chunks: whether the region is a header block of this pass
IsHeaderRegion(self, start_pos) ==
  header_preproc_match(
    self, Strip(Slice(self.text, start_pos, get_line_end(self.text, start_pos) + 1),
                Whitespace))

\* get_guard_name: comment_text.split(b" ", 1)[1] of the first comment whose
\* stripped text starts with b"@guard "; <<>> stands for None.
CommentText(self, k) ==
  Strip(Slice(self.text, self.comments[k][1], self.comments[k][2]), Whitespace)

GuardComments(self) ==
  {k \in 1..Len(self.comments) :
     StartsWith(CommentText(self, k), GUARD_COMMENT \o <<" ">>, 0)}

last_guard_name(self) ==
  IF GuardComments(self) = {} THEN <<>>
  ELSE Slice(CommentText(self, SetMax(GuardComments(self))), Len(GUARD_COMMENT) + 1,
             Len(CommentText(self, SetMax(GuardComments(self)))))

get_guard_name(self) ==
  IF GuardComments(self) = {} THEN <<>>
  ELSE Slice(CommentText(self, SetMin(GuardComments(self))), Len(GUARD_COMMENT) + 1,
             Len(CommentText(self, SetMin(GuardComments(self)))))

\* is_in_preproc_cond
is_in_preproc_cond(self, lineno) ==
  \E k \in 1..Len(self.preproc_ifs) :
    /\ self.preproc_ifs[k][1] <= line_to_pos(self.text, lineno)
    /\ line_to_pos(self.text, lineno) < self.preproc_ifs[k][2]

(***************************************************************************)
(* generator.py: HeaderGenerator.  A declaration of the AST that pycparser *)
(* gives is [kind, storage, line]: kind is the class of the node visited   *)
(* ("FuncDef", or for a Decl the class of its type: "TypeDecl", "PtrDecl", *)
(* "ArrayDecl" with a dimension, "ArrayDeclNoDim", "FuncDecl", "Struct"),  *)
(* storage the set of its storage class specifiers and line its            *)
(* coord.line.                                                             *)
(***************************************************************************)
\* HeaderGenerator.__init__ with the AST of load_ast; `k` is the child
\* visit_children is at and `guard` the local variable of write_all.
HeaderGenerator(ast) ==
  [outfile |-> <<>>, private |-> FALSE, first |-> TRUE, last_decl_lineno |-> 0,
   ast |-> ast, k |-> 1, guard |-> FALSE]

\* text.replace(b"\r\n", b"\n")
KeptOfCRLF(text) ==
  {k \in 1..Len(text) : ~(text[k] = "\r" /\ k < Len(text) /\ text[k + 1] = NL)}

write_raw(text) ==
  [j \in 1..Cardinality(KeptOfCRLF(text)) |->
     text[CHOOSE k \in KeptOfCRLF(text) :
            Cardinality({m \in KeptOfCRLF(text) : m < k}) = j - 1]]

\* A write_chunk that writes the separator before the first fragment too
write_chunk_always_separates(self, text) ==
  [self EXCEPT !.outfile = @ \o <<NL>> \o write_raw(text),
               !.first = FALSE]

\* write_chunk
write_chunk(self, text) ==
  [self EXCEPT !.outfile = @ \o (IF self.first THEN <<>> ELSE <<NL>>) \o write_raw(text),
               !.first = FALSE]

\* `for chunk in chunks: self.write_chunk(chunk)`, from the k-th chunk on
RECURSIVE write_chunks(_, _, _)
write_chunks(self, chunks, k) ==
  IF k > Len(chunks) THEN self
  ELSE write_chunks(write_chunk(self, chunks[k]), chunks, k + 1)

\* A selection that takes every region before end_line
InLineRange_no_start(cf, start_pos, start_line, end_line) ==
  end_line # 0 => start_pos < line_to_pos(cf.text, end_line)

\* A selection that takes every region from start_line on
InLineRange_no_end(cf, start_pos, start_line, end_line) ==
  line_to_pos(cf.text, start_line) <= start_pos

\* get_header_chunks(start_line, end_line) selects the regions that start at
\* or after the start of start_line and, unless end_line is None (0 here),
\* before the start of end_line.
InLineRange(cf, start_pos, start_line, end_line) ==
  /\ line_to_pos(cf.text, start_line) <= start_pos
  /\ end_line # 0 => start_pos < line_to_pos(cf.text, end_line)

\* get_header_chunks: the chunks of the header blocks among the regions from
\* the k-th on, in order.
RECURSIVE get_header_chunks(_, _, _, _)
get_header_chunks(cf, k, start_line, end_line) ==
  IF k > Len(cf.preproc_ifs) THEN <<>>
  ELSE (IF /\ InLineRange(cf, cf.preproc_ifs[k][1], start_line, end_line)
           /\ IsHeaderRegion(cf, cf.preproc_ifs[k][1])
          THEN <<HeaderChunk(cf, cf.preproc_ifs[k][1], cf.preproc_ifs[k][2])>>
        ELSE <<>>)
       \o get_header_chunks(cf, k + 1, start_line, end_line)

\* write_decl_chunk
write_decl_chunk(self, cf, text, lineno) ==
  write_chunk(
    write_chunks(self, get_header_chunks(cf, 1, self.last_decl_lineno, lineno), 1),
    text)

\* write_remaining_marked_chunks
write_remaining_marked_chunks(self, cf) ==
  write_chunks(self, get_header_chunks(cf, 1, self.last_decl_lineno, 0), 1)

\* on_var_decl that writes an extern variable too
on_var_decl_keeps_extern(self, cf, decl) ==
  \/ ("static" \in decl.storage) # self.private
  \/ is_in_preproc_cond(cf, decl.line)

\* on_var_decl that writes a variable inside a conditional too
on_var_decl_ignores_cond(self, cf, decl) ==
  \/ "extern" \in decl.storage
  \/ ("static" \in decl.storage) # self.private

\* on_var_decl: whether it returns before it writes
on_var_decl_returns(self, cf, decl) ==
  \/ "extern" \in decl.storage
  \/ ("static" \in decl.storage) # self.private
  \/ is_in_preproc_cond(cf, decl.line)

\* A visit_FuncDecl with the extern check of on_var_decl
visit_FuncDecl_skips_extern(self, cf, decl) ==
  \/ "extern" \in decl.storage
  \/ ("static" \in decl.storage) # self.private
  \/ is_in_preproc_cond(cf, decl.line)

\* visit_FuncDecl, reached from visit_FuncDef: whether it returns before it
\* writes
visit_FuncDecl_returns(self, cf, decl) ==
  \/ ("static" \in decl.storage) # self.private
  \/ is_in_preproc_cond(cf, decl.line)

\* write_guard_start: `guard` is what it returns
write_guard_start(self, cf) ==
  IF self.private \/ get_guard_name(cf) = <<>> THEN [self EXCEPT !.guard = FALSE]
  ELSE [self EXCEPT
          !.guard = TRUE,
          !.outfile = @ \o write_raw(<<"#", "i", "f", "n", "d", "e", "f", " ">> \o get_guard_name(cf) \o <<NL>>)
                        \o write_raw(<<"#", "d", "e", "f", "i", "n", "e", " ">> \o get_guard_name(cf) \o <<NL, NL>>)]

\* write_guard_end
write_guard_end(self) ==
  IF self.private THEN self
  ELSE [self EXCEPT !.outfile = @ \o write_raw(<<NL, "#", "e", "n", "d", "i", "f", NL>>)]

(***************************************************************************)
(* The state.  One run of the model follows one component of the program   *)
(* on one input:                                                           *)
(*   SpecBlock  replace_blocks(input)                                      *)
(*   SpecPre    replace_includes(input)                                    *)
(*   SpecCFile  CSourceFile(input) and the searches on it                  *)
(*   SpecGen    HeaderGenerator(input, preprocessed) and write_all          *)
(* `pc` is the position of that run in the code.                           *)
(***************************************************************************)
VARIABLES
  pc,            \* the step the run is at
  input,         \* the byte string handed to the component
  block_parser,  \* the BlockParser of replace_blocks_nostr
  include_parser,\* the IncludeParser of replace_includes
  cfile,         \* the CSourceFile (and its SimpleCParser)
  generator,     \* the HeaderGenerator
  result         \* the value returned

vars == <<pc, input, block_parser, include_parser, cfile, generator, result>>

(***************************************************************************)
(* The inputs: every concatenation of at most MaxTokens tokens.            *)
(***************************************************************************)
TokenTexts(tokens, n) ==
  {Concat(ts) : ts \in UNION {[1..k -> tokens] : k \in 0..n}}

MaxBlockTokens == 4

BlockTokens ==
  {<<"{">>, <<"}">>, <<NL>>, <<"#">>, <<" ">>, <<"x">>, <<QUOTE>>, <<";">>}

\* x = {1, 2};
InitializerSpaced ==
  <<"x", " ", "=", " ", "{", "1", ",", " ", "2", "}", ";", NL>>

\* x=y{1, 2};
InitializerTight ==
  <<"x", "=", "y", "{", "1", ",", " ", "2", "}", ";", NL>>

\* typedef struct {int a;} T;
TypedefStruct ==
  <<"t", "y", "p", "e", "d", "e", "f", " ", "s", "t", "r", "u", "c", "t",
  " ", "{", "i", "n", "t", " ", "a", ";", "}", " ", "T", ";", NL>>

\* struct{int a;} s;
StructNoBlank ==
  <<"s", "t", "r", "u", "c", "t", "{", "i", "n", "t", " ", "a", ";", "}",
  " ", "s", ";", NL>>

\* enum e {A}; | void g(){x;}
EnumThenBody ==
  <<"e", "n", "u", "m", " ", "e", " ", "{", "A", "}", ";", NL, "v", "o",
  "i", "d", " ", "g", "(", ")", "{", "x", ";", "}", NL>>

\* struct s f(void) { | return x; | }
StructReturn ==
  <<"s", "t", "r", "u", "c", "t", " ", "s", " ", "f", "(", "v", "o", "i",
    "d", ")", " ", "{", NL, " ", "r", "e", "t", "u", "r", "n", " ", "x", ";",
    NL, "}", NL>>

\* Longer inputs: a literal that spans two lines before a function body
\* with a preprocessor line, and a body whose preprocessor line is indented.
BlockSamples ==
  {<<"s", "(", QUOTE, "a", NL, "b", QUOTE, ")", ";", NL,
     "f", "(", ")", "{", NL, " ", "x", ";", NL, "#", "y", NL, "}", NL>>,
   <<"f", "{", NL, " ", "#", "y", NL, "x", NL, "#", "z", NL, "}">>,
   InitializerSpaced, InitializerTight, TypedefStruct, StructNoBlank, EnumThenBody,
   StructReturn}

(***************************************************************************)
(* replace_blocks(input), blockrepl.py                                     *)
(***************************************************************************)
InitBlock ==
  /\ pc = "replace_strings"
  /\ input \in TokenTexts(BlockTokens, MaxBlockTokens) \cup BlockSamples
  /\ block_parser = BlockParser(<<>>)
  /\ include_parser = IncludeParser(<<>>)
  /\ cfile = CSourceFile(<<>>)
  /\ generator = HeaderGenerator(<<>>)
  /\ result = <<>>

\* replace_blocks: text = replace_strings(text), then BlockParser(text).
ReplaceStrings ==
  /\ pc = "replace_strings"
  /\ block_parser' = BlockParser(replace_strings(input))
  /\ pc' = "parse"
  /\ UNCHANGED <<input, include_parser, cfile, result, generator>>

\* BlockParser.parse: one parse_iter while pos < len(text); the error of
\* find_statement_end or find_closing_brace ends replace_blocks.
BlockParserParse ==
  /\ pc = "parse"
  /\ block_parser.pos < Len(block_parser.text)
  /\ block_parser' = BlockParser_parse_iter(block_parser)
  /\ pc' = IF block_parser'.err THEN "error" ELSE "parse"
  /\ UNCHANGED <<input, include_parser, cfile, result, generator>>

\* replace_blocks_nostr: replace_blocks_from_list(text, blocks) once parse
\* has returned.
ReplaceBlocksFromList ==
  /\ pc = "parse"
  /\ block_parser.pos >= Len(block_parser.text)
  /\ result' = replace_blocks_from_list(block_parser.text, block_parser.blocks)
  /\ pc' = "done"
  /\ UNCHANGED <<input, block_parser, include_parser, cfile, generator>>

NextBlock == ReplaceStrings \/ BlockParserParse \/ ReplaceBlocksFromList

SpecBlock == InitBlock /\ [][NextBlock]_vars

(***************************************************************************)
(* replace_includes(input), precpp.py                                      *)
(***************************************************************************)
MaxPreTokens == 4

PreTokens ==
  {<<"#", "i", "n", "c", "l", "u", "d", "e", " ", "<", "a", ">">>,
   <<" ", "/", "/", " ", "@", "i", "n", "c", "l", "u", "d", "e">>,
   <<"/", "*", " ", "@", "i", "n", "c", "l", "u", "d", "e", " ", "*", "/">>,
   <<NL>>,
   <<"#", "i", "f", "d", "e", "f", " ", "H", "E", "A", "D", "E", "R", NL>>,
   <<"#", "i", "f", " ", "1", NL>>,
   <<"#", "e", "n", "d", "i", "f">>,
   <<"#", "i", "n", "c", "l", "u", "d", "e", "<", "a", ">">>,
   <<QUOTE>>}

\* The annotation on the line before the directive, on the line of the
\* directive, and a directive without annotation.
IncludeBelowAnnotation ==
  <<"/", "/", " ", "@", "i", "n", "c", "l", "u", "d", "e", NL,
    "#", "i", "n", "c", "l", "u", "d", "e", " ", QUOTE, "x", ".", "h", QUOTE, NL>>

IncludeWithAnnotation ==
  <<"#", "i", "n", "c", "l", "u", "d", "e", " ", QUOTE, "x", ".", "h", QUOTE,
    " ", "/", "/", " ", "@", "i", "n", "c", "l", "u", "d", "e", NL>>

IncludePlain ==
  <<"#", "i", "n", "c", "l", "u", "d", "e", " ", QUOTE, "y", ".", "h", QUOTE, NL>>

\* An include outside a header block, one inside, one without a blank after
\* `include` and one with the annotation:
\*   #include <a> | #ifdef HEADER | #include <b> | #endif | #include<c> |
\*   #include <d> /* @include */
IncludeKinds ==
  <<"#", "i", "n", "c", "l", "u", "d", "e", " ", "<", "a", ">", NL, "#",
  "i", "f", "d", "e", "f", " ", "H", "E", "A", "D", "E", "R", NL, "#", "i",
  "n", "c", "l", "u", "d", "e", " ", "<", "b", ">", NL, "#", "e", "n", "d",
  "i", "f", NL, "#", "i", "n", "c", "l", "u", "d", "e", "<", "c", ">", NL,
  "#", "i", "n", "c", "l", "u", "d", "e", " ", "<", "d", ">", " ", "/",
  "*", " ", "@", "i", "n", "c", "l", "u", "d", "e", " ", "*", "/", NL>>

\* #else and #elif inside two conditionals, and an #endif too many
ElseElif ==
  <<"#", "i", "f", " ", "1", NL, "#", "i", "f", "d", "e", "f", " ", "H",
    "E", "A", "D", "E", "R", NL, "#", "e", "l", "s", "e", NL, "#", "e", "l",
    "i", "f", " ", "1", NL, "#", "e", "n", "d", "i", "f", NL, "#", "e", "n",
    "d", "i", "f", NL, "#", "e", "n", "d", "i", "f", NL>>

PreSamples ==
  {IncludeBelowAnnotation, IncludeWithAnnotation, IncludePlain, IncludeKinds, ElseElif}

InitPre ==
  /\ pc = "includes"
  /\ input \in TokenTexts(PreTokens, MaxPreTokens) \cup PreSamples
  /\ include_parser = IncludeParser(input)
  /\ block_parser = BlockParser(<<>>)
  /\ cfile = CSourceFile(<<>>)
  /\ generator = HeaderGenerator(<<>>)
  /\ result = <<>>

\* IncludeParser.parse: one parse_iter while pos < len(text); the error of
\* preproc_endif ends replace_includes.
IncludeParserParse ==
  /\ pc = "includes"
  /\ include_parser.pos < Len(include_parser.text)
  /\ include_parser' = IncludeParser_parse_iter(include_parser)
  /\ pc' = IF include_parser'.err THEN "error" ELSE "includes"
  /\ UNCHANGED <<input, block_parser, cfile, result, generator>>

\* replace_includes: the text without the includes that are not kept, once
\* parse has returned.
ReplaceIncludes ==
  /\ pc = "includes"
  /\ include_parser.pos >= Len(include_parser.text)
  /\ result' = replace_includes_from(input, include_parser.includes, 1, 0)
  /\ pc' = "done"
  /\ UNCHANGED <<input, block_parser, include_parser, cfile, generator>>

NextPre == IncludeParserParse \/ ReplaceIncludes

SpecPre == InitPre /\ [][NextPre]_vars

(***************************************************************************)
(* CSourceFile(input) and the searches for the end of a declaration,       *)
(* cfile.py                                                                *)
(***************************************************************************)
MaxCTokens == 3

CTokens ==
  {<<"{">>, <<"}">>, <<"(">>, <<")">>, <<";">>, <<"=">>, <<QUOTE>>, <<BSLASH>>,
   <<"/", "*">>, <<"*", "/">>, <<"/", "/">>, <<NL>>, <<"#">>, <<"x">>,
   <<"#", "i", "f", " ", "1", NL>>, <<"#", "e", "n", "d", "i", "f">>}

\* /* never closes
NeverCloses ==
  <<"/", "*", " ", "n", "e", "v", "e", "r", " ", "c", "l", "o", "s", "e", "s">>

\* char *s = "{;}";
\* int x;
LiteralThenDecl ==
  <<"c", "h", "a", "r", " ", "*", "s", " ", "=", " ", QUOTE, "{", ";", "}", QUOTE, ";", NL,
    "i", "n", "t", " ", "x", ";">>

\* "\"=\"";     a[']'] = 1;     f(/*;*/ x) { }
CSamples ==
  {NeverCloses, LiteralThenDecl,
   <<"x", NL, "/", "*", " ", "n", "o">>,
   <<QUOTE, BSLASH, QUOTE, "=", BSLASH, QUOTE, QUOTE, ";">>,
   <<"a", "[", APOS, "]", APOS, "]", "=", "1", ";">>,
   <<"a", "[", "1">>,
   <<"c", "=", APOS, "a">>,
   <<"#", "i", "f", "d", "e", "f", " ", "A", NL, "#", "i", "f", "n", "d", "e", "f", " ", "B", NL,
     "#", "e", "n", "d", "i", "f", NL>>,
   <<"f", "(", "/", "*", ";", "*", "/", "x", ")", "{", "}">>,
   <<"i", "n", "t", " ", "x", NL, "#", "d", "e", "f", "i", "n", "e", " ", "E", " ", "=", NL,
     "=", " ", "1", ";">>}

\* parse_metadata: `while not self.done()`
ParseMetadataStart(t) == IF Len(t) = 0 THEN "ready" ELSE "parse_metadata"

InitCFile ==
  /\ input \in TokenTexts(CTokens, MaxCTokens) \cup CSamples
  /\ pc = ParseMetadataStart(input)
  /\ cfile = CSourceFile(input)
  /\ block_parser = BlockParser(<<>>)
  /\ include_parser = IncludeParser(<<>>)
  /\ generator = HeaderGenerator(<<>>)
  /\ result = <<>>

\* CSourceFile.__init__: parse_metadata, one parse_metadata_iter while not
\* done; a CFileParseError ends the construction.
ParseMetadataIter ==
  /\ pc = "parse_metadata"
  /\ cfile' = parse_metadata_iter(cfile)
  /\ pc' = IF cfile'.err THEN "error"
           ELSE IF cfile'.i >= Len(cfile'.text) THEN "ready"
           ELSE "parse_metadata"
  /\ UNCHANGED <<input, block_parser, include_parser, result, generator>>

\* CSourceFile.find_var_decl_end(startpos) on the constructed object
FindVarDeclEndAt(startpos) ==
  /\ pc = "ready"
  /\ result' = find_var_decl_end(cfile.text, startpos)
  /\ cfile' = AfterFind(cfile, result')
  /\ pc' = IF result'.ok THEN "ready" ELSE "error"
  /\ UNCHANGED <<input, block_parser, include_parser, generator>>

FindVarDeclEnd == \E startpos \in 0..Len(cfile.text) : FindVarDeclEndAt(startpos)

\* CSourceFile.find_func_decl_end(startpos) on the constructed object
FindFuncDeclEndAt(startpos) ==
  /\ pc = "ready"
  /\ result' = find_func_decl_end(cfile.text, startpos)
  /\ cfile' = AfterFind(cfile, result')
  /\ pc' = IF result'.ok THEN "ready" ELSE "error"
  /\ UNCHANGED <<input, block_parser, include_parser, generator>>

FindFuncDeclEnd == \E startpos \in 0..Len(cfile.text) : FindFuncDeclEndAt(startpos)

NextCFile == ParseMetadataIter \/ FindVarDeclEnd \/ FindFuncDeclEnd

SpecCFile == InitCFile /\ [][NextCFile]_vars

(***************************************************************************)
(* The conditional regions recorded by CSourceFile(input), cfile.py        *)
(***************************************************************************)
MaxRegionTokens == 5

RegionTokens ==
  {<<"#", "i", "f", " ", "1", NL>>,
   <<"#", "e", "n", "d", "i", "f", NL>>,
   <<"#", "e", "l", "s", "e", NL>>,
   <<"x">>, <<" ">>, <<"{">>, <<"}">>}

\* A region with a nested conditional and the word endif in a comment,
\* then a second region:
\*   #ifdef A | #ifndef B | #endif | // #endif | #endif | int x; | #if 1 | #endif
TwoRegions ==
  <<"#", "i", "f", "d", "e", "f", " ", "A", NL, "#", "i", "f", "n", "d",
  "e", "f", " ", "B", NL, "#", "e", "n", "d", "i", "f", NL, "/", "/", " ",
  "#", "e", "n", "d", "i", "f", NL, "#", "e", "n", "d", "i", "f", NL, "i",
  "n", "t", " ", "x", ";", NL, "#", "i", "f", " ", "1", NL, "#", "e", "n",
  "d", "i", "f", NL>>

InitRegions ==
  /\ input \in TokenTexts(RegionTokens, MaxRegionTokens) \cup {TwoRegions}
  /\ pc = ParseMetadataStart(input)
  /\ cfile = CSourceFile(input)
  /\ block_parser = BlockParser(<<>>)
  /\ include_parser = IncludeParser(<<>>)
  /\ generator = HeaderGenerator(<<>>)
  /\ result = <<>>

SpecRegions == InitRegions /\ [][ParseMetadataIter]_vars

(***************************************************************************)
(* The comments recorded by CSourceFile(input) and the searches for the    *)
(* comment before a position or a line, cfile.py                           *)
(***************************************************************************)
MaxCommentTokens == 4

CommentTokens ==
  {<<"/", "*", "a", "*", "/">>,             \* /*a*/
   <<"/", "*", "d", NL, "e", "*", "/">>,    \* /*d | e*/
   <<"/", "/", "b", NL>>,                   \* //b
   <<"/", "/", "c", BSLASH, NL>>,           \* //c\
   <<"/", "/", BSLASH, NL>>,                \* //\
   <<NL>>, <<" ">>,
   <<"x", ";", NL>>}                        \* x;

InitComments ==
  /\ input \in TokenTexts(CommentTokens, MaxCommentTokens)
  /\ pc = ParseMetadataStart(input)
  /\ cfile = CSourceFile(input)
  /\ block_parser = BlockParser(<<>>)
  /\ include_parser = IncludeParser(<<>>)
  /\ generator = HeaderGenerator(<<>>)
  /\ result = <<>>

\* The object is constructed: a search may be called
Constructed == pc = "ready"

\* CSourceFile.get_comment_pos_before(pos): k is the index in self.comments
\* of the span returned, 0 for None
GetCommentPosBefore ==
  /\ Constructed
  /\ \E pos \in 0..Len(cfile.text) :
       result' = [pos |-> pos, k |-> get_comment_pos_before(cfile, pos)]
  /\ pc' = "pos_before"
  /\ UNCHANGED <<input, block_parser, include_parser, cfile, generator>>

\* CSourceFile.get_min_comment_start_directly_before(pos): start is the
\* offset returned, -1 for None; the call that never returns leaves the
\* program in its loop
GetMinCommentStartDirectlyBefore ==
  /\ Constructed
  /\ \E pos \in 0..Len(cfile.text) :
       /\ result' = [pos |-> pos,
                     start |-> get_min_comment_start_directly_before(cfile, pos)]
       /\ pc' = IF result'.start = -2 THEN "hang" ELSE "min_start"
  /\ UNCHANGED <<input, block_parser, include_parser, cfile, generator>>

\* CSourceFile.get_comment_before(lineno)
GetCommentBefore ==
  /\ Constructed
  /\ \E lineno \in 1..(count_newlines(cfile.text) + 1) :
       /\ result' = [lineno |-> lineno, text |-> get_comment_before(cfile, lineno)]
       /\ pc' = IF get_min_comment_start_directly_before(
                      cfile, line_to_pos(cfile.text, lineno)) = -2
                 THEN "hang" ELSE "comment_before"
  /\ UNCHANGED <<input, block_parser, include_parser, cfile, generator>>

NextComments ==
  \/ ParseMetadataIter
  \/ GetCommentPosBefore
  \/ GetMinCommentStartDirectlyBefore
  \/ GetCommentBefore

SpecComments == InitComments /\ [][NextComments]_vars

(***************************************************************************)
(* HeaderGenerator(input, preprocessed) and write_all, generator.py.  A    *)
(* source is made of at most MaxItems items; each item is its text and the *)
(* declarations the AST holds for it, with their lines inside the item.    *)
(***************************************************************************)
MaxItems == 2

\* int a;
IntA ==
  [text |-> <<"i", "n", "t", " ", "a", ";", NL>>,
   decls |-> <<[kind |-> "TypeDecl", storage |-> {}, line |-> 1]>>]

\* static int b = 1;
StaticB ==
  [text |-> <<"s", "t", "a", "t", "i", "c", " ", "i", "n", "t", " ", "b",
            " ", "=", " ", "1", ";", NL>>,
   decls |-> <<[kind |-> "TypeDecl", storage |-> {"static"}, line |-> 1]>>]

\* extern int c;
ExternC ==
  [text |-> <<"e", "x", "t", "e", "r", "n", " ", "i", "n", "t", " ", "c",
            ";", NL>>,
   decls |-> <<[kind |-> "TypeDecl", storage |-> {"extern"}, line |-> 1]>>]

\* int f(void) {}
FuncF ==
  [text |-> <<"i", "n", "t", " ", "f", "(", "v", "o", "i", "d", ")", " ",
            "{", "}", NL>>,
   decls |-> <<[kind |-> "FuncDef", storage |-> {}, line |-> 1]>>]

\* static int g() {}
StaticG ==
  [text |-> <<"s", "t", "a", "t", "i", "c", " ", "i", "n", "t", " ", "g",
            "(", ")", " ", "{", "}", NL>>,
   decls |-> <<[kind |-> "FuncDef", storage |-> {"static"}, line |-> 1]>>]

\* int h(void);
ProtoH ==
  [text |-> <<"i", "n", "t", " ", "h", "(", "v", "o", "i", "d", ")", ";",
            NL>>,
   decls |-> <<[kind |-> "FuncDecl", storage |-> {}, line |-> 1]>>]

\* // @guard G_H
GuardLine ==
  [text |-> <<"/", "/", " ", "@", "g", "u", "a", "r", "d", " ", "G", "_",
            "H", NL>>,
   decls |-> <<>>]

\* /* @guard G2 */
GuardBlock ==
  [text |-> <<"/", "*", " ", "@", "g", "u", "a", "r", "d", " ", "G", "2",
            " ", "*", "/", NL>>,
   decls |-> <<>>]

\* #ifdef HEADER | void foo(int x); | #endif
HeaderBlock ==
  [text |-> <<"#", "i", "f", "d", "e", "f", " ", "H", "E", "A", "D", "E",
            "R", NL, "v", "o", "i", "d", " ", "f", "o", "o", "(", "i", "n",
            "t", " ", "x", ")", ";", NL, "#", "e", "n", "d", "i", "f",
            NL>>,
   decls |-> <<[kind |-> "FuncDecl", storage |-> {}, line |-> 2]>>]

\* #ifdef PRIVATE_HEADER |   struct s; | #endif
PrivateBlock ==
  [text |-> <<"#", "i", "f", "d", "e", "f", " ", "P", "R", "I", "V", "A",
            "T", "E", "_", "H", "E", "A", "D", "E", "R", NL, " ", " ", "s",
            "t", "r", "u", "c", "t", " ", "s", ";", NL, "#", "e", "n", "d",
            "i", "f", NL>>,
   decls |-> <<[kind |-> "Struct", storage |-> {}, line |-> 2]>>]

\* #if 1 | int d; | #endif
IfBlock ==
  [text |-> <<"#", "i", "f", " ", "1", NL, "i", "n", "t", " ", "d", ";",
            NL, "#", "e", "n", "d", "i", "f", NL>>,
   decls |-> <<[kind |-> "TypeDecl", storage |-> {}, line |-> 2]>>]

\* static int g_count = 0;
StaticCount ==
  [text |-> <<"s", "t", "a", "t", "i", "c", " ", "i", "n", "t", " ", "g",
            "_", "c", "o", "u", "n", "t", " ", "=", " ", "0", ";", NL>>,
   decls |-> <<[kind |-> "TypeDecl", storage |-> {"static"}, line |-> 1]>>]

\* int compute(int x) { return x; }
Compute ==
  [text |-> <<"i", "n", "t", " ", "c", "o", "m", "p", "u", "t", "e", "(",
            "i", "n", "t", " ", "x", ")", " ", "{", " ", "r", "e", "t",
            "u", "r", "n", " ", "x", ";", " ", "}", NL>>,
   decls |-> <<[kind |-> "FuncDef", storage |-> {}, line |-> 1]>>]

\* int *p;
PtrP ==
  [text |-> <<"i", "n", "t", " ", "*", "p", ";", NL>>,
   decls |-> <<[kind |-> "PtrDecl", storage |-> {}, line |-> 1]>>]

\* int q[2];
ArrayQ ==
  [text |-> <<"i", "n", "t", " ", "q", "[", "2", "]", ";", NL>>,
   decls |-> <<[kind |-> "ArrayDecl", storage |-> {}, line |-> 1]>>]

\* int r[];
ArrayNoDim ==
  [text |-> <<"i", "n", "t", " ", "r", "[", "]", ";", NL>>,
   decls |-> <<[kind |-> "ArrayDeclNoDim", storage |-> {}, line |-> 1]>>]

\* #ifdef ANY_HEADER |   #define N 2 | #endif
AnyBlock ==
  [text |-> <<"#", "i", "f", "d", "e", "f", " ", "A", "N", "Y", "_", "H",
            "E", "A", "D", "E", "R", NL, " ", " ", "#", "d", "e", "f", "i",
            "n", "e", " ", "N", " ", "2", NL, "#", "e", "n", "d", "i", "f",
            NL>>,
   decls |-> <<>>]

\* The source of the scenario of the header of foo, g_count and compute:
\*   #ifdef HEADER
\*   void foo(int x);
\*   #endif
\*   static int g_count = 0;
\*   int compute(int x) {
\*       return x;
\*   }
Scenario ==
  [text |-> <<"#", "i", "f", "d", "e", "f", " ", "H", "E", "A", "D", "E",
            "R", NL, "v", "o", "i", "d", " ", "f", "o", "o", "(", "i", "n",
            "t", " ", "x", ")", ";", NL, "#", "e", "n", "d", "i", "f", NL,
            "s", "t", "a", "t", "i", "c", " ", "i", "n", "t", " ", "g",
            "_", "c", "o", "u", "n", "t", " ", "=", " ", "0", ";", NL, "i",
            "n", "t", " ", "c", "o", "m", "p", "u", "t", "e", "(", "i",
            "n", "t", " ", "x", ")", " ", "{", NL, " ", " ", " ", " ", "r",
            "e", "t", "u", "r", "n", " ", "x", ";", NL, "}", NL>>,
   decls |-> <<[kind |-> "FuncDecl", storage |-> {}, line |-> 2],
               [kind |-> "TypeDecl", storage |-> {"static"}, line |-> 4],
               [kind |-> "FuncDef", storage |-> {}, line |-> 5]>>]

\* #ifdef HEADER |     int a(void); |   int b(void); | #endif
DeepFirst ==
  [text |-> <<"#", "i", "f", "d", "e", "f", " ", "H", "E", "A", "D", "E",
            "R", NL, " ", " ", " ", " ", "i", "n", "t", " ", "a", "(", "v",
            "o", "i", "d", ")", ";", NL, " ", " ", "i", "n", "t", " ", "b",
            "(", "v", "o", "i", "d", ")", ";", NL, "#", "e", "n", "d", "i",
            "f", NL>>,
   decls |-> <<[kind |-> "FuncDecl", storage |-> {}, line |-> 2], [kind |-> "FuncDecl", storage |-> {}, line |-> 3]>>]

\* #ifdef ANY_HEADER |  |   #define M 1 |  | #endif
BlankEnds ==
  [text |-> <<"#", "i", "f", "d", "e", "f", " ", "A", "N", "Y", "_", "H",
            "E", "A", "D", "E", "R", NL, NL, " ", " ", "#", "d", "e", "f",
            "i", "n", "e", " ", "M", " ", "1", NL, NL, "#", "e", "n", "d",
            "i", "f", NL>>,
   decls |-> <<>>]

\* #ifdef HEADER | #endif
EmptyBlock ==
  [text |-> <<"#", "i", "f", "d", "e", "f", " ", "H", "E", "A", "D", "E",
            "R", NL, "#", "e", "n", "d", "i", "f", NL>>,
   decls |-> <<>>]

\* #ifdef  HEADER | #define T 1 | #endif
TwoSpaces ==
  [text |-> <<"#", "i", "f", "d", "e", "f", " ", " ", "H", "E", "A", "D",
            "E", "R", NL, "#", "d", "e", "f", "i", "n", "e", " ", "T", " ",
            "1", NL, "#", "e", "n", "d", "i", "f", NL>>,
   decls |-> <<>>]

\* #if 1 | #ifdef HEADER | #define I 1 | #endif | #endif
Nested ==
  [text |-> <<"#", "i", "f", " ", "1", NL, "#", "i", "f", "d", "e", "f",
            " ", "H", "E", "A", "D", "E", "R", NL, "#", "d", "e", "f", "i",
            "n", "e", " ", "I", " ", "1", NL, "#", "e", "n", "d", "i", "f",
            NL, "#", "e", "n", "d", "i", "f", NL>>,
   decls |-> <<>>]

\* #define V int v; | V
\* a variable defined by a macro: no `;` follows on the line of the declaration
MacroV ==
  [text |-> <<"#", "d", "e", "f", "i", "n", "e", " ", "V", " ", "i", "n",
            "t", " ", "v", ";", NL, "V", NL>>,
   decls |-> <<[kind |-> "TypeDecl", storage |-> {}, line |-> 2]>>]

\* #define SV static int sv; | SV
StaticMacroV ==
  [text |-> <<"#", "d", "e", "f", "i", "n", "e", " ", "S", "V", " ", "s",
            "t", "a", "t", "i", "c", " ", "i", "n", "t", " ", "s", "v",
            ";", NL, "S", "V", NL>>,
   decls |-> <<[kind |-> "TypeDecl", storage |-> {"static"}, line |-> 2]>>]

\* extern int e(void) {}
ExternE ==
  [text |-> <<"e", "x", "t", "e", "r", "n", " ", "i", "n", "t", " ", "e",
            "(", "v", "o", "i", "d", ")", " ", "{", "}", NL>>,
   decls |-> <<[kind |-> "FuncDef", storage |-> {"extern"}, line |-> 1]>>]

\* /* @guard G\r\nH */
GuardCRLF ==
  [text |-> <<"/", "*", " ", "@", "g", "u", "a", "r", "d", " ", "G", "\r", NL, "H",
            " ", "*", "/", NL>>,
   decls |-> <<>>]

GenItems ==
  {IntA, StaticB, ExternC, FuncF, StaticG, ProtoH,
   GuardLine, GuardBlock, HeaderBlock, PrivateBlock, IfBlock, StaticCount,
   Compute, PtrP, ArrayQ, ArrayNoDim, AnyBlock, GuardCRLF,
   DeepFirst, BlankEnds, EmptyBlock, TwoSpaces, Nested,
   MacroV, StaticMacroV, ExternE}

ShiftLines(decls, n) == [j \in 1..Len(decls) |-> [decls[j] EXCEPT !.line = @ + n]]

AssembleOnto(head, rest) ==
  [text |-> head.text \o rest.text,
   decls |-> head.decls \o ShiftLines(rest.decls, count_newlines(head.text))]

RECURSIVE Assemble(_)
Assemble(items) ==
  IF items = <<>> THEN [text |-> <<>>, decls |-> <<>>]
  ELSE AssembleOnto(Head(items), Assemble(Tail(items)))

\* Two declarations, each followed by a header block:
\*   int a; | #ifdef HEADER | void foo(int x); | #endif | int f(void) {} |
\*   #ifdef ANY_HEADER |   #define N 2 | #endif
Interleaved == Assemble(<<IntA, HeaderBlock, FuncF, AnyBlock>>)

\* A block with an empty interior between two declarations:
\*   int a; | #ifdef HEADER | #endif | int *p;
AroundEmpty == Assemble(<<IntA, EmptyBlock, PtrP>>)

GenSources ==
  {Assemble(items) : items \in UNION {[1..n -> GenItems] : n \in 0..MaxItems}}
  \cup {Scenario, Interleaved, AroundEmpty}

InitGen ==
  /\ \E src \in GenSources : input = src.text /\ generator = HeaderGenerator(src.decls)
  /\ pc = ParseMetadataStart(input)
  /\ cfile = CSourceFile(input)
  /\ block_parser = BlockParser(<<>>)
  /\ include_parser = IncludeParser(<<>>)
  /\ result = <<>>

\* generate_headers: one write_all, public or private, or the public one and
\* then the private one.  write_all up to write_guard_start: the setters of
\* outfile and private, and the guard.
\* write_all with an outfile setter that resets nothing
WriteGuardStart_keeps_state ==
  /\ pc = "ready"
  /\ \E private \in BOOLEAN :
       /\ \/ result = <<>>
          \/ Len(result) = 1 /\ ~result[1].private /\ private
       /\ cfile' = [cfile EXCEPT !.private = private]
       /\ generator' = write_guard_start(
                         [generator EXCEPT !.outfile = <<>>, !.private = private, !.k = 1],
                         cfile')
  /\ pc' = "write_from_ast"
  /\ UNCHANGED <<input, block_parser, include_parser, result>>

WriteGuardStart ==
  /\ pc = "ready"
  /\ \E private \in BOOLEAN :
       /\ \/ result = <<>>
          \/ Len(result) = 1 /\ ~result[1].private /\ private
       /\ cfile' = [cfile EXCEPT !.private = private]
       /\ generator' = write_guard_start(
                         [generator EXCEPT !.outfile = <<>>, !.last_decl_lineno = 1,
                                           !.first = TRUE, !.private = private, !.k = 1],
                         cfile')
  /\ pc' = "write_from_ast"
  /\ UNCHANGED <<input, block_parser, include_parser, result>>

\* The declaration visit_children is at
Decl == generator.ast[generator.k]

\* make_plain_var_decl / make_extern_var_decl / make_func_decl raise what the
\* search raises, and do not return when the search for the comment does
\* not; otherwise the declaration is written.
WriteDecl(decl, r, written) ==
  /\ cfile' = AfterFind(cfile, r)
  /\ IF ~r.ok THEN pc' = "error" /\ UNCHANGED generator
     ELSE IF get_min_comment_start_directly_before(
               cfile, line_to_pos(cfile.text, decl.line)) = -2
       THEN pc' = "hang" /\ UNCHANGED generator
     ELSE /\ generator' = [written EXCEPT !.last_decl_lineno = decl.line, !.k = @ + 1]
          /\ UNCHANGED pc

SkipDecl ==
  /\ generator' = [generator EXCEPT !.k = @ + 1]
  /\ UNCHANGED <<pc, cfile>>

\* on_var_decl after its checks, r what find_var_decl_end returns
OnVarDecl(decl, r) ==
  WriteDecl(decl, r,
            write_decl_chunk(generator, cfile,
                             IF generator.private
                               THEN make_plain_var_decl(cfile, decl.line, r)
                             ELSE make_extern_var_decl(cfile, decl.line, r),
                             decl.line))

\* visit_Decl: visit_TypeDecl, visit_PtrDecl and visit_ArrayDecl call
\* on_var_decl, visit_FuncDecl returns (not in a definition), generic_visit
\* does nothing.
VisitDecl ==
  /\ pc = "write_from_ast"
  /\ generator.k <= Len(generator.ast)
  /\ Decl.kind # "FuncDef"
  /\ IF Decl.kind \in {"TypeDecl", "PtrDecl", "ArrayDecl"}
        /\ ~on_var_decl_returns(generator, cfile, Decl)
       THEN \E r \in {find_var_decl_end(cfile.text, line_to_pos(cfile.text, Decl.line))} :
              OnVarDecl(Decl, r)
     ELSE SkipDecl
  /\ UNCHANGED <<input, block_parser, include_parser, result>>

\* visit_FuncDecl after its checks, r what find_func_decl_end returns
OnFuncDef(decl, r) ==
  WriteDecl(decl, r,
            write_decl_chunk(generator, cfile, make_func_decl(cfile, decl.line, r),
                             decl.line))

\* visit_FuncDef: visit_Decl of node.decl and visit_FuncDecl
VisitFuncDef ==
  /\ pc = "write_from_ast"
  /\ generator.k <= Len(generator.ast)
  /\ Decl.kind = "FuncDef"
  /\ IF ~visit_FuncDecl_returns(generator, cfile, Decl)
       THEN \E r \in {find_func_decl_end(cfile.text, line_to_pos(cfile.text, Decl.line))} :
              OnFuncDef(Decl, r)
     ELSE SkipDecl
  /\ UNCHANGED <<input, block_parser, include_parser, result>>

\* write_from_ast has visited every child: write_remaining_marked_chunks
WriteRemainingMarkedChunks ==
  /\ pc = "write_from_ast"
  /\ generator.k > Len(generator.ast)
  /\ generator' = write_remaining_marked_chunks(generator, cfile)
  /\ pc' = "write_guard_end"
  /\ UNCHANGED <<input, block_parser, include_parser, cfile, result>>

\* `if guard: self.write_guard_end()` and the return of write_all; the
\* header written is kept in `result`.
WriteGuardEnd ==
  /\ pc = "write_guard_end"
  /\ generator' = IF generator.guard THEN write_guard_end(generator) ELSE generator
  /\ result' = Append(result, [private |-> generator.private,
                               header |-> generator'.outfile])
  /\ pc' = "ready"
  /\ UNCHANGED <<input, block_parser, include_parser, cfile>>

NextGen ==
  \/ ParseMetadataIter
  \/ WriteGuardStart
  \/ VisitDecl
  \/ VisitFuncDef
  \/ WriteRemainingMarkedChunks
  \/ WriteGuardEnd

SpecGen == InitGen /\ [][NextGen]_vars

(***************************************************************************)
(* CSourceFile(input).get_header_chunks() for a public or a private pass,  *)
(* called any number of times on the sources of SpecGen.                   *)
(***************************************************************************)
\* get_header_chunks with self.private as the generator sets it: every
\* recorded region is looked at.
GetHeaderChunks ==
  /\ pc \in {"ready", "chunks"}
  /\ \E private \in BOOLEAN :
       /\ cfile' = [cfile EXCEPT !.private = private]
       /\ result' = [private |-> private,
                     chunks |-> get_header_chunks(cfile', 1, 1, 0)]
  /\ pc' = "chunks"
  /\ UNCHANGED <<input, block_parser, include_parser, generator>>

NextChunks == ParseMetadataIter \/ GetHeaderChunks

SpecChunks == InitGen /\ [][NextChunks]_vars

(***************************************************************************)
(* Properties of replace_blocks.                                           *)
(***************************************************************************)

\* C1: whenever replace_blocks returns, its result has exactly as many
\* newline bytes as its input; neither pass changes the count: the text
\* left by replace_strings has as many as the input, and the result of
\* replace_blocks_nostr as many as that text.
C1_LineCountInvariance ==
  /\ pc \in {"parse", "error", "done"} =>
       count_newlines(block_parser.text) = count_newlines(input)
  /\ pc = "done" => /\ count_newlines(result) = count_newlines(block_parser.text)
                    /\ count_newlines(result) = count_newlines(input)

\* A run in which both passes removed bytes from an input with newlines,
\* one of them inside a literal.
C1_Witness ==
  /\ pc = "done"
  /\ Len(block_parser.text) < Len(input)
  /\ Len(result) < Len(block_parser.text)
  /\ \E k \in 1..Len(get_strings(input)) :
       CountNL(input, get_strings(input)[k][1], get_strings(input)[k][2]) > 0

\* The recorded block that holds offset k of the parser's text, the start
\* of the line of k inside that block (the start of the block for its first
\* line) and the end of that line (the end of the block for its last line).
InBlock(k) ==
  \E b \in 1..Len(block_parser.blocks) :
    block_parser.blocks[b][1] <= k /\ k < block_parser.blocks[b][2]

BlockAt(k) ==
  block_parser.blocks[CHOOSE b \in 1..Len(block_parser.blocks) :
                        block_parser.blocks[b][1] <= k /\ k < block_parser.blocks[b][2]]

InnerLineStart(k) ==
  SetMax({BlockAt(k)[1]} \cup
         {j + 1 : j \in {i \in BlockAt(k)[1]..(k - 1) : At(block_parser.text, i) = NL}})

InnerLineEnd(k) ==
  SetMin({BlockAt(k)[2]} \cup
         {j \in k..(BlockAt(k)[2] - 1) : At(block_parser.text, j) = NL})

\* The line of offset k starts with "#" once its leading blanks are ignored.
HashAfterBlanks(k) ==
  \E h \in InnerLineStart(k)..(InnerLineEnd(k) - 1) :
    /\ At(block_parser.text, h) = "#"
    /\ \A j \in InnerLineStart(k)..(h - 1) : At(block_parser.text, j) \in {" ", "\t"}

\* The bytes of t at the offsets that satisfy Keep, in order.
BytesKept(t, Keep(_)) ==
  [j \in 1..Cardinality({k \in 0..(Len(t) - 1) : Keep(k)}) |->
     At(t, CHOOSE k \in 0..(Len(t) - 1) :
             Keep(k) /\ Cardinality({i \in 0..(k - 1) : Keep(i)}) = j - 1)]

\* C2 (as amended): the result of replace_blocks is the parser's text with,
\* inside every recorded block, each line whose first byte is not "#"
\* emptied (its newline kept) and each line whose first byte is "#" kept
\* byte for byte; leading blanks are not ignored.
C2_BlockLines ==
  pc = "done" =>
    result = BytesKept(block_parser.text,
                       LAMBDA k : \/ ~InBlock(k)
                                  \/ At(block_parser.text, k) = NL
                                  \/ At(block_parser.text, InnerLineStart(k)) = "#")

\* C2 as stated: the lines kept are those that start with "#" once leading
\* whitespace is ignored.
C2_AsStated ==
  pc = "done" =>
    result = BytesKept(block_parser.text,
                       LAMBDA k : \/ ~InBlock(k)
                                  \/ At(block_parser.text, k) = NL
                                  \/ HashAfterBlanks(k))

\* A block in which a line that starts with "#" was kept, a line that does
\* not was emptied, and a line with "#" after blanks was emptied too.
C2_Witness ==
  /\ pc = "done"
  /\ \E b \in 1..Len(block_parser.blocks) :
       \E k, j, h \in block_parser.blocks[b][1]..(block_parser.blocks[b][2] - 1) :
         /\ At(block_parser.text, k) = "#" /\ InnerLineStart(k) = k
         /\ At(block_parser.text, j) = "x" /\ InnerLineStart(j) = j
         /\ At(block_parser.text, h) = "#" /\ InnerLineStart(h) < h /\ HashAfterBlanks(h)
  /\ Len(result) < Len(block_parser.text)

(***************************************************************************)
(* Properties of replace_includes.                                         *)
(***************************************************************************)

\* C8 (as amended): for the input `// @include\n#include "x.h"\n`, where
\* the annotation is on the line before the directive, replace_includes
\* removes the #include line and returns `// @include\n\n`; the line is
\* kept when the annotation follows the directive on its own line
\* (`#include "x.h" // @include\n` is returned unchanged); an
\* `#include "y.h"` line without annotation outside a header block is
\* removed, its newline kept.
C8_IncludeAnnotation ==
  pc = "done" =>
    /\ input = IncludeBelowAnnotation =>
         result = SubSeq(IncludeBelowAnnotation, 1, 12) \o <<NL>>
    /\ input = IncludeWithAnnotation => result = input
    /\ input = IncludePlain => result = <<NL>>

\* C8 as stated: the #include line below the annotation comment is kept.
C8_AsStated ==
  (pc = "done" /\ input = IncludeBelowAnnotation) => result = input

\* replace_includes has returned for the input with the annotation on the
\* line before the directive, after the parser recorded that directive.
C8_Witness ==
  /\ pc = "done"
  /\ input = IncludeBelowAnnotation
  /\ include_parser.includes = <<<<12, 26>>>>
  /\ Len(result) = 13

(***************************************************************************)
(* C9 (as amended).  When the scan meets a block comment that is never      *)
(* closed, the CFileParseError it raises reports the end of the buffer: the *)
(* line after the last newline of the newline-terminated text, column 1.   *)
(* For a comment at the top level this is never the line and column of the *)
(* start of the comment.                                                   *)
(***************************************************************************)
C9_ErrorAtEndOfBuffer ==
  [][(cfile'.err /\ cfile'.msg = MsgEOFSearching("*/")) =>
       /\ <<cfile'.line, cfile'.col>> = <<count_newlines(cfile.text) + 1, 1>>
       /\ (pc = "parse_metadata" /\ StartsWith(cfile.text, <<"/", "*">>, cfile.i)) =>
            <<cfile'.line, cfile'.col>> # location(cfile.text, cfile.i)]_vars

\* C9 as stated: the error reports the line and column of the start of the
\* comment.
C9_AsStated ==
  [][(/\ pc = "parse_metadata"
      /\ StartsWith(cfile.text, <<"/", "*">>, cfile.i)
      /\ cfile'.err) =>
       <<cfile'.line, cfile'.col>> = location(cfile.text, cfile.i)]_vars

\* `/* never closes` has failed, at line 2, column 1.
C9_Witness ==
  /\ pc = "error"
  /\ input = NeverCloses
  /\ cfile.msg = MsgEOFSearching("*/")
  /\ <<cfile.line, cfile.col>> = <<2, 1>>

(***************************************************************************)
(* The bytes outside every unit, read one byte at a time with the stack of *)
(* what is open: the closing byte of a group, the quote of a literal, or   *)
(* the mark of a comment or of a directive line.  FirstOutside is the      *)
(* offset of the first byte of `terms` at or after k with nothing open, or *)
(* -1.  With directives = FALSE a "#" is a byte like any other.            *)
(***************************************************************************)
Closer(c) == CASE c = "(" -> ")" [] c = "[" -> "]" [] c = "{" -> "}"

Top(stack) == IF stack = <<>> THEN "" ELSE Head(stack)

RECURSIVE FirstOutside(_, _, _, _, _)
AfterDirective(t, r, stack, terms) ==
  IF r.ok THEN FirstOutside(t, r.i, stack, terms, TRUE) ELSE -1

FirstOutside(t, k, stack, terms, directives) ==
  IF k >= Len(t) THEN -1
  ELSE IF Top(stack) \in {QUOTE, APOS} THEN
    IF At(t, k) = BSLASH THEN FirstOutside(t, k + 2, stack, terms, directives)
    ELSE IF At(t, k) = Top(stack)
      THEN FirstOutside(t, k + 1, Tail(stack), terms, directives)
    ELSE FirstOutside(t, k + 1, stack, terms, directives)
  ELSE IF Top(stack) = "*/" THEN
    IF StartsWith(t, <<"*", "/">>, k)
      THEN FirstOutside(t, k + 2, Tail(stack), terms, directives)
    ELSE FirstOutside(t, k + 1, stack, terms, directives)
  ELSE IF Top(stack) = "//" THEN
    IF At(t, k) = NL THEN FirstOutside(t, k + 1, Tail(stack), terms, directives)
    ELSE IF At(t, k) = BSLASH /\ At(t, k + 1) = NL
      THEN FirstOutside(t, k + 1, Tail(stack), terms, directives)
    ELSE IF At(t, k) = BSLASH THEN FirstOutside(t, k + 2, stack, terms, directives)
    ELSE FirstOutside(t, k + 1, stack, terms, directives)
  ELSE IF Top(stack) = "#" THEN
    IF At(t, k) = NL THEN FirstOutside(t, k, Tail(stack), terms, directives)
    ELSE FirstOutside(t, k + 1, stack, terms, directives)
  ELSE IF stack = <<>> /\ At(t, k) \in terms THEN k
  ELSE IF At(t, k) = Top(stack)
    THEN FirstOutside(t, k + 1, Tail(stack), terms, directives)
  ELSE IF StartsWith(t, <<"/", "/">>, k)
    THEN FirstOutside(t, k + 2, <<"//">> \o stack, terms, directives)
  ELSE IF StartsWith(t, <<"/", "*">>, k)
    THEN FirstOutside(t, k + 2, <<"*/">> \o stack, terms, directives)
  ELSE IF directives /\ At(t, k) = "#" THEN
    IF re_match(re_preproc_if, 0, t, k + 1).ok
      THEN AfterDirective(t, cond_preproc(t, k + 1), stack, terms)
    ELSE FirstOutside(t, k + 1, <<"#">> \o stack, terms, directives)
  ELSE IF At(t, k) \in {QUOTE, APOS}
    THEN FirstOutside(t, k + 1, <<At(t, k)>> \o stack, terms, directives)
  ELSE IF At(t, k) \in {"(", "[", "{"}
    THEN FirstOutside(t, k + 1, <<Closer(At(t, k))>> \o stack, terms, directives)
  ELSE FirstOutside(t, k + 1, stack, terms, directives)

\* The search returned DeclEnd(p, <the byte at p is def>), or raised when
\* there is no such offset (p = -1).
Returned(t, r, p, def) ==
  IF p < 0 THEN ~r.ok
  ELSE r.ok /\ r.position = p /\ r.is_definition = (At(t, p) = def)

(***************************************************************************)
(* C10 (as amended).  find_var_decl_end(start) returns the offset of the   *)
(* first "=" or ";" at or after start that lies outside every comment,     *)
(* string or character literal, preprocessor directive (a "#" up to the    *)
(* end of its line; for #if, #ifdef and #ifndef up to the matching #endif) *)
(* and (), [], {} group opened at or after start, with is_definition true  *)
(* exactly when that byte is "="; find_func_decl_end does the same with    *)
(* "{" and ";", and is_definition true exactly for "{".  A byte inside a   *)
(* string literal never ends the search: started at `int x;` after         *)
(* `char *s = "{;}";` the search ends at the ";" of `int x;`.              *)
(***************************************************************************)
C10_DeclEndOutsideUnits ==
  [][\A startpos \in 0..Len(cfile.text) :
       /\ FindVarDeclEndAt(startpos) =>
            /\ Returned(cfile.text, result',
                        FirstOutside(cfile.text, startpos, <<>>, {"=", ";"}, TRUE), "=")
            /\ (input = LiteralThenDecl /\ startpos = 17) =>
                 result' = [ok |-> TRUE, i |-> 23, position |-> 22,
                            is_definition |-> FALSE]
       /\ FindFuncDeclEndAt(startpos) =>
            Returned(cfile.text, result',
                     FirstOutside(cfile.text, startpos, <<>>, {"{", ";"}, TRUE), "{")]_vars

\* C10 as stated: a preprocessor directive is not among the units the
\* search skips.
C10_AsStated ==
  [][\A startpos \in 0..Len(cfile.text) :
       /\ FindVarDeclEndAt(startpos) =>
            Returned(cfile.text, result',
                     FirstOutside(cfile.text, startpos, <<>>, {"=", ";"}, FALSE), "=")
       /\ FindFuncDeclEndAt(startpos) =>
            Returned(cfile.text, result',
                     FirstOutside(cfile.text, startpos, <<>>, {"{", ";"}, FALSE), "{")]_vars

\* The search started at `int x;` has ended at its ";".
C10_Witness ==
  /\ pc = "ready"
  /\ input = LiteralThenDecl
  /\ result = [ok |-> TRUE, i |-> 23, position |-> 22, is_definition |-> FALSE]
  /\ cfile.i = 23

(***************************************************************************)
(* Properties of HeaderGenerator.write_all.                                *)
(***************************************************************************)
\* A step of write_from_ast that visits the declaration Decl
VisitStep == VisitDecl \/ VisitFuncDef

\* extern int a;
ExternIntA ==
  <<"e", "x", "t", "e", "r", "n", " ", "i", "n", "t", " ", "a", ";", NL>>

\* static int b;
StaticIntB ==
  <<"s", "t", "a", "t", "i", "c", " ", "i", "n", "t", " ", "b", ";", NL>>

\* C3: a declaration is written by a pass only if it is static and the pass
\* is the private one, or it is not static and the pass is the public one,
\* and a variable declared extern is written by no pass; so over the public
\* and the private pass it is written to at most one header.
C3_VisibilityPartition ==
  [][VisitStep /\ generator'.outfile # generator.outfile
       => /\ ("static" \in Decl.storage) = generator.private
          /\ ~(Decl.kind # "FuncDef" /\ "extern" \in Decl.storage)]_vars

\* Both passes are done on `int a;` and `static int b = 1;`: the first went
\* to the public header only and the second to the private header only.
C3_Witness ==
  /\ input = Assemble(<<IntA, StaticB>>).text
  /\ result = <<[private |-> FALSE, header |-> ExternIntA],
                [private |-> TRUE, header |-> StaticIntB]>>

\* The lines of the k-th recorded region: from the line of the `#` of the
\* opening directive to the line of its #endif
RegionFirstLine(cf, k) == pos_to_line(cf.text, cf.preproc_ifs[k][1] - 1)

RegionLastLine(cf, k) == pos_to_line(cf.text, cf.preproc_ifs[k][2] - 1)

\* No declaration for which is_in_preproc_cond holds is written
NothingWrittenInCond ==
  VisitStep /\ is_in_preproc_cond(cfile, Decl.line)
    => generator'.outfile = generator.outfile

\* C4 as stated: nothing is written for a declaration in a conditional, and
\* is_in_preproc_cond holds for every line of a recorded region, the line of
\* the opening directive included.
C4_AsStated ==
  [][/\ NothingWrittenInCond
     /\ \A k \in 1..Len(cfile'.preproc_ifs) :
          \A line \in RegionFirstLine(cfile', k)..RegionLastLine(cfile', k) :
            is_in_preproc_cond(cfile', line)]_vars

\* C4: nothing is written for a declaration for which is_in_preproc_cond
\* holds; is_in_preproc_cond holds for every line after the line of the
\* opening directive of a recorded region up to the line of its #endif, and
\* the region does not reach the start of the line of its opening directive.
C4_ConditionalExclusion ==
  [][/\ NothingWrittenInCond
     /\ \A k \in 1..Len(cfile'.preproc_ifs) :
          /\ \A line \in (RegionFirstLine(cfile', k) + 1)..RegionLastLine(cfile', k) :
               is_in_preproc_cond(cfile', line)
          /\ line_to_pos(cfile'.text, RegionFirstLine(cfile', k))
               < cfile'.preproc_ifs[k][1]]_vars

\* The public pass is done on `int d;` inside `#if 1`: nothing was written.
C4_Witness ==
  /\ input = IfBlock.text
  /\ cfile.preproc_ifs # <<>>
  /\ is_in_preproc_cond(cfile, 2)
  /\ result = <<[private |-> FALSE, header |-> <<>>]>>

\* The name in the first comment, in source order, whose stripped text
\* starts with `@guard `
FirstGuardName(cf) ==
  Slice(CommentText(cf, SetMin(GuardComments(cf))), Len(GUARD_COMMENT) + 1,
        Len(CommentText(cf, SetMin(GuardComments(cf)))))

\* #ifndef NAME, #define NAME and an empty line, as written (\r\n as \n)
GuardStartLines(name) ==
  write_raw(<<"#", "i", "f", "n", "d", "e", "f", " ">> \o name \o <<NL>>
            \o <<"#", "d", "e", "f", "i", "n", "e", " ">> \o name \o <<NL, NL>>)

\* An empty line and #endif
GuardEndLines == <<NL, "#", "e", "n", "d", "i", "f", NL>>

EndsWith(t, s) == Len(t) >= Len(s) /\ Slice(t, Len(t) - Len(s), Len(t)) = s

HasGuard(cf, private) == ~private /\ GuardComments(cf) # {}

\* C5: a public pass on a source with a guard comment starts the header with
\* the #ifndef and #define lines of the name in the first guard comment and
\* ends it with the #endif line; a private pass, and a public pass on a
\* source without a guard comment, write nothing around what the
\* declarations and the chunks give.
C5_GuardLines ==
  [][/\ WriteGuardStart
          => generator'.outfile = IF HasGuard(cfile, generator'.private)
                                    THEN GuardStartLines(FirstGuardName(cfile))
                                  ELSE <<>>
     /\ WriteGuardEnd
          => IF HasGuard(cfile, generator.private)
               THEN /\ StartsWith(result'[Len(result')].header,
                                  GuardStartLines(FirstGuardName(cfile)), 0)
                    /\ EndsWith(result'[Len(result')].header, GuardEndLines)
                    /\ result'[Len(result')].header = generator.outfile \o GuardEndLines
             ELSE result'[Len(result')].header = generator.outfile]_vars

\* The public pass is done on a source with the guard comments `@guard G_H`
\* and then `@guard G2`: the header holds the guard lines of G_H.
C5_Witness ==
  /\ input = Assemble(<<GuardLine, GuardBlock>>).text
  /\ Len(result) = 1
  /\ ~result[1].private
  /\ result[1].header =
       <<"#", "i", "f", "n", "d", "e", "f", " ", "G", "_", "H", NL, "#",
       "d", "e", "f", "i", "n", "e", " ", "G", "_", "H", NL, NL, NL, "#",
       "e", "n", "d", "i", "f", NL>>

\* void foo(int x); | | int compute(int x);
ChunkThenCompute ==
  <<"v", "o", "i", "d", " ", "f", "o", "o", "(", "i", "n", "t", " ", "x",
  ")", ";", NL, NL, "i", "n", "t", " ", "c", "o", "m", "p", "u", "t", "e",
  "(", "i", "n", "t", " ", "x", ")", ";", NL>>

\* void foo(int x); | | extern int compute(int x);
ChunkThenExternCompute ==
  <<"v", "o", "i", "d", " ", "f", "o", "o", "(", "i", "n", "t", " ", "x",
  ")", ";", NL, NL, "e", "x", "t", "e", "r", "n", " ", "i", "n", "t", " ",
  "c", "o", "m", "p", "u", "t", "e", "(", "i", "n", "t", " ", "x", ")",
  ";", NL>>

\* static int g_count;
StaticCountDecl ==
  <<"s", "t", "a", "t", "i", "c", " ", "i", "n", "t", " ", "g", "_", "c",
  "o", "u", "n", "t", ";", NL>>

\* void foo(int x); | | int g_count;
ChunkThenCount ==
  <<"v", "o", "i", "d", " ", "f", "o", "o", "(", "i", "n", "t", " ", "x",
  ")", ";", NL, NL, "i", "n", "t", " ", "g", "_", "c", "o", "u", "n", "t",
  ";", NL>>

\* C6 as stated: the public header of the scenario is the chunk, a blank
\* line and `extern int compute(int x);`.
C6_AsStated ==
  \A k \in 1..Len(result) :
    input = Scenario.text /\ ~result[k].private
      => result[k].header = ChunkThenExternCompute

\* C6: the public header of the scenario is the chunk of `#ifdef HEADER`, a
\* blank line and the declaration `int compute(int x);`, without `extern`.
C6_PublicHeader ==
  \A k \in 1..Len(result) :
    input = Scenario.text /\ ~result[k].private
      => result[k].header = ChunkThenCompute

\* The public pass is done on the scenario.
C6_Witness ==
  /\ input = Scenario.text
  /\ pc = "ready"
  /\ \E k \in 1..Len(result) :
       result[k] = [private |-> FALSE, header |-> ChunkThenCompute]

\* C7 as stated: the private header of the scenario is the chunk, a blank
\* line and `int g_count;`.
C7_AsStated ==
  \A k \in 1..Len(result) :
    input = Scenario.text /\ result[k].private
      => result[k].header = ChunkThenCount

\* C7: the private header of the scenario is `static int g_count;` alone:
\* the chunk of `#ifdef HEADER` is not of the private pass, and the
\* declaration keeps `static` and loses the initializer.
C7_PrivateHeader ==
  \A k \in 1..Len(result) :
    input = Scenario.text /\ result[k].private
      => result[k].header = StaticCountDecl

\* The private pass is done on the scenario, after the public one.
C7_Witness ==
  /\ input = Scenario.text
  /\ Len(result) = 2
  /\ result[2] = [private |-> TRUE, header |-> StaticCountDecl]

(***************************************************************************)
(* Properties of IncludeParser and replace_includes.                       *)
(***************************************************************************)
\* The match parse_iter finds, and the offset of its `#`
PreMatch == OrRegexSearch(IncludeParserRegex, include_parser.text, include_parser.pos)

PreHash(m) ==
  SetMin({k \in m.s..(Len(include_parser.text) - 1) : At(include_parser.text, k) = "#"})

\* parse_iter finds a directive: a line that starts, after blanks, with `#`
AtDirective(m) == m.extype # 0 /\ IncludeTypeNames[m.extype] = "preproc"

\* The `#` at offset h is directly followed by the word w
DirectiveNamed(h, w) == StartsWith(include_parser.text, w, h + 1)

\* ... and w is followed by a whitespace byte
DirectiveWord(h, w) ==
  /\ DirectiveNamed(h, w)
  /\ h + 1 + Len(w) < Len(include_parser.text)
  /\ At(include_parser.text, h + 1 + Len(w)) \in Whitespace

OpensConditional(h) ==
  \E w \in {<<"i", "f">>, <<"i", "f", "d", "e", "f">>, <<"i", "f", "n", "d", "e", "f">>} :
    DirectiveWord(h, w)

Include == <<"i", "n", "c", "l", "u", "d", "e">>

\* From offset q on there is only whitespace up to the end of a line
BlankToLineEnd(t, q) ==
  \E e \in q..Len(t) :
    /\ \A j \in q..(e - 1) : At(t, j) \in Whitespace
    /\ e = Len(t) \/ At(t, e) = NL

\* The directive at h is `ifdef`, whitespace, one of HEADER, PRIVATE_HEADER
\* and ANY_HEADER, and only whitespace up to the end of a line
HeaderIfdefFrom(t, p) ==
  \E k \in 1..Len(HEADER_MACROS) :
    StartsWith(t, HEADER_MACROS[k], p) /\ BlankToLineEnd(t, p + Len(HEADER_MACROS[k]))

HeaderIfdef(h) ==
  /\ DirectiveNamed(h, <<"i", "f", "d", "e", "f">>)
  /\ HeaderIfdefFrom(include_parser.text,
                     h + 6 + RunLen(include_parser.text, h + 6, Whitespace, FALSE))

\* The line ends with `// @include` or `/* @include */`
AfterAnnotationWord(s) ==
  EndsWith(s, INCLUDE_COMMENT)
  /\ EndsWith(RStrip(SubSeq(s, 1, Len(s) - Len(INCLUDE_COMMENT)), Whitespace), <<"/", "/">>)

InsideAnnotationBlock(s) ==
  EndsWith(s, INCLUDE_COMMENT)
  /\ EndsWith(RStrip(SubSeq(s, 1, Len(s) - Len(INCLUDE_COMMENT)), Whitespace), <<"/", "*">>)

EndsWithAnnotation(line) ==
  \/ AfterAnnotationWord(RStrip(line, Whitespace))
  \/ /\ EndsWith(RStrip(line, Whitespace), <<"*", "/">>)
     /\ InsideAnnotationBlock(
          RStrip(SubSeq(RStrip(line, Whitespace), 1, Len(RStrip(line, Whitespace)) - 2),
                 Whitespace))

\* The n-th line of t, without its newline (n from 1)
NthNewline(t, n) ==
  CHOOSE k \in 0..(Len(t) - 1) : At(t, k) = NL /\ CountNL(t, 0, k) = n - 1

NthLineStart(t, n) == IF n = 1 THEN 0 ELSE NthNewline(t, n - 1) + 1

NthLineEnd(t, n) == IF n > count_newlines(t) THEN Len(t) ELSE NthNewline(t, n)

NthLine(t, n) == Slice(t, NthLineStart(t, n), NthLineEnd(t, n))

\* The n-th line of the input is a recorded include without annotation
RemovedIncludeLine(n) ==
  \E j \in 1..Len(include_parser.includes) :
    /\ include_parser.includes[j][1] = NthLineStart(input, n)
    /\ ~EndsWithAnnotation(Slice(input, include_parser.includes[j][1],
                                 include_parser.includes[j][2]))

\* A step of IncludeParser.parse (one parse_iter), and the step in which
\* replace_includes returns
ParseIterStep == pc = "includes" /\ include_parser.pos < Len(include_parser.text)

ReturnStep == pc = "includes" /\ pc' = "done"

\* What the flag stack and replace_includes do, whatever counts as an include
FlagsAndRemoval(m) ==
  /\ ParseIterStep /\ AtDirective(m) /\ OpensConditional(PreHash(m))
       => include_parser'.preproc_is_header_block_stack
            = Append(include_parser.preproc_is_header_block_stack, HeaderIfdef(PreHash(m)))
  /\ ReturnStep
       => /\ count_newlines(result') = count_newlines(input)
          /\ \A n \in 1..(count_newlines(input) + 1) :
               NthLine(result', n) = IF RemovedIncludeLine(n) THEN <<>>
                                     ELSE NthLine(input, n)

\* C11 as stated: every directive `#include...` met while the flag on top
\* of the stack is false is recorded for removal.
C11StatedStep(m) ==
  /\ FlagsAndRemoval(m)
  /\ ParseIterStep
       => include_parser'.includes =
            IF AtDirective(m) /\ DirectiveNamed(PreHash(m), Include)
               /\ ~in_header_block(include_parser)
              THEN Append(include_parser.includes, <<m.s, m.e>>)
            ELSE include_parser.includes

C11_AsStated == [][\E m \in {PreMatch} : C11StatedStep(m)]_vars

\* C11: an #if, #ifdef or #ifndef directive pushes a flag that is true
\* exactly for `ifdef` of HEADER, PRIVATE_HEADER or ANY_HEADER with nothing
\* else on the line; a directive is recorded for removal exactly when its
\* `#` is directly followed by `include` and a whitespace byte and the flag
\* on top of the stack is false, so `#include<a>` is never recorded;
\* replace_includes removes the recorded directives, up to their newline,
\* except those whose line ends with `// @include` or `/* @include */`.
C11Step(m) ==
  /\ FlagsAndRemoval(m)
  /\ ParseIterStep
       => include_parser'.includes =
            IF AtDirective(m) /\ DirectiveWord(PreHash(m), Include)
               /\ ~in_header_block(include_parser)
              THEN Append(include_parser.includes, <<m.s, m.e>>)
            ELSE include_parser.includes

C11_IncludeRemoval == [][\E m \in {PreMatch} : C11Step(m)]_vars

\* replace_includes has returned for the source with the four kinds of
\* include: only the first was removed.
C11_Witness ==
  /\ pc = "done"
  /\ input = IncludeKinds
  /\ include_parser.includes = <<<<0, 12>>, <<59, 86>>>>
  /\ result =
       <<NL, "#", "i", "f", "d", "e", "f", " ", "H", "E", "A", "D", "E",
       "R", NL, "#", "i", "n", "c", "l", "u", "d", "e", " ", "<", "b", ">",
       NL, "#", "e", "n", "d", "i", "f", NL, "#", "i", "n", "c", "l", "u",
       "d", "e", "<", "c", ">", NL, "#", "i", "n", "c", "l", "u", "d", "e",
       " ", "<", "d", ">", " ", "/", "*", " ", "@", "i", "n", "c", "l",
       "u", "d", "e", " ", "*", "/", NL>>

\* The `#` at offset h is directly followed by `endif` and then a whitespace
\* byte or the end of the text
EndifDirective(h) ==
  /\ DirectiveNamed(h, <<"e", "n", "d", "i", "f">>)
  /\ \/ h + 6 >= Len(include_parser.text)
     \/ At(include_parser.text, h + 6) \in Whitespace

C12Step(m) ==
  /\ ParseIterStep /\ AtDirective(m) /\ EndifDirective(PreHash(m))
     /\ include_parser.preproc_level = 0
       => /\ pc' = "error"
          /\ include_parser'.err
          /\ include_parser'.coords =
               <<count_newlines(Slice(include_parser.text, 0, m.s)) + 1, m.e - m.s + 1>>
  /\ pc' = "error" => result' = <<>>

\* C12: when parse_iter meets an #endif directive while preproc_level is 0,
\* PreCPPParseError is raised with the line of the directive and the column
\* just after its last byte, and replace_includes returns nothing.
C12_EndifWithoutIf == [][\E m \in {PreMatch} : C12Step(m)]_vars

\* The parse of a source whose second line is an #endif that closes nothing
\* has failed at line 2, column 7.
C12_Witness ==
  /\ pc = "error"
  /\ input = <<NL, "#", "e", "n", "d", "i", "f">>
  /\ include_parser.err
  /\ include_parser.coords = <<2, 7>>
  /\ result = <<>>

\* C13: the text process_pre_cpp_text returns has the newlines of the input:
\* it has as many, no recorded include holds a newline, and each line of the
\* result is the line of the input with that number, whole or emptied.
C13_LineNumbersKept ==
  pc = "done" =>
    /\ count_newlines(result) = count_newlines(input)
    /\ \A j \in 1..Len(include_parser.includes) :
         NL \notin {At(input, k) : k \in include_parser.includes[j][1]
                                         ..(include_parser.includes[j][2] - 1)}
    /\ \A n \in 1..(count_newlines(input) + 1) :
         NthLine(result, n) \in {NthLine(input, n), <<>>}

\* Two #include lines were removed and their two newlines are what is left.
C13_Witness ==
  /\ pc = "done"
  /\ input =
       <<"#", "i", "n", "c", "l", "u", "d", "e", " ", "<", "a", ">", NL,
       "#", "i", "n", "c", "l", "u", "d", "e", " ", "<", "a", ">", NL>>
  /\ Len(include_parser.includes) = 2
  /\ result = <<NL, NL>>

(***************************************************************************)
(* Properties of get_header_chunks.                                        *)
(***************************************************************************)
\* The opening directive of the k-th recorded region, from after its `#` to
\* the end of its line, stripped
OpeningDirective(cf, k) ==
  Strip(Slice(cf.text, cf.preproc_ifs[k][1],
              NthLineEnd(cf.text, pos_to_line(cf.text, cf.preproc_ifs[k][1]))),
        Whitespace)

\* The regions whose opening directive is `ifdef ANY_HEADER`, or
\* `ifdef HEADER` in a public pass, or `ifdef PRIVATE_HEADER` in a private one
Qualifying(cf, private) ==
  {k \in 1..Len(cf.preproc_ifs) :
     OpeningDirective(cf, k) \in
       {<<"i", "f", "d", "e", "f", " ">> \o HEADER_MACROS[3],
        <<"i", "f", "d", "e", "f", " ">>
          \o (IF private THEN HEADER_MACROS[2] ELSE HEADER_MACROS[1])}}

NthOf(S, n) == CHOOSE k \in S : Cardinality({j \in S : j < k}) = n - 1

\* C14: get_header_chunks gives one chunk for each qualifying region, in the
\* order of the regions, and none for another region; a second call for the
\* same pass gives the same list.
C14_ChunkSelection ==
  [][GetHeaderChunks =>
       /\ Len(result'.chunks) = Cardinality(Qualifying(cfile, result'.private))
       /\ \A n \in 1..Len(result'.chunks) :
            result'.chunks[n] =
              HeaderChunk(cfile,
                          cfile.preproc_ifs[NthOf(Qualifying(cfile, result'.private), n)][1],
                          cfile.preproc_ifs[NthOf(Qualifying(cfile, result'.private), n)][2])
       /\ pc = "chunks" /\ result.private = result'.private => result' = result]_vars

\* The chunks of `#ifdef ANY_HEADER` and then `#ifdef HEADER` were given for
\* a public pass, in that order.
C14_Witness ==
  /\ pc = "chunks"
  /\ input = Assemble(<<AnyBlock, HeaderBlock>>).text
  /\ Len(cfile.preproc_ifs) = 2
  /\ result = [private |-> FALSE,
               chunks |-> <<<<"#", "d", "e", "f", "i", "n", "e", " ", "N",
                            " ", "2", NL>>,
                            <<"v", "o", "i", "d", " ", "f", "o", "o", "(",
                            "i", "n", "t", " ", "x", ")", ";", NL>>>>]

\* The text between the end of the line of the opening directive of the k-th
\* region and the start of the line of its #endif
RegionInterior(cf, k) ==
  Slice(cf.text,
        NthLineEnd(cf.text, pos_to_line(cf.text, cf.preproc_ifs[k][1])) + 1,
        NthLineStart(cf.text, pos_to_line(cf.text, cf.preproc_ifs[k][2] - 1)))

\* The indentation common to the lines that are not blank: the longest run
\* of spaces and tabs that starts each of them
LineIndent(line) == Slice(line, 0, RunLen(line, 0, {" ", "\t"}, FALSE))

NonBlankLines(lines) == {k \in 1..Len(lines) : Strip(lines[k], Whitespace) # <<>>}

CommonIndentLen(lines) ==
  SetMax({n \in 0..SetMin({Len(LineIndent(lines[k])) : k \in NonBlankLines(lines)} \cup {99}) :
            \A j, k \in NonBlankLines(lines) : Slice(lines[j], 0, n) = Slice(lines[k], 0, n)}
         \cap 0..(IF NonBlankLines(lines) = {} THEN 0 ELSE 99))

DedentBy(lines, n) ==
  Concat([k \in 1..Len(lines) |->
            IF k \in NonBlankLines(lines) THEN Slice(lines[k], n, Len(lines[k]))
            ELSE lines[k]])

Dedent(lines) == DedentBy(lines, CommonIndentLen(lines))

\* The chunk of the k-th region as C15 states it: the interior without the
\* empty lines that start and end it, and without the common indentation
StatedChunk(cf, k) ==
  Dedent(splitlines(Strip(RegionInterior(cf, k), {NL}) \o <<NL>>, 0))

\* C15 as stated: each chunk is the interior of its region, stripped of
\* leading and trailing blank lines, without the indentation common to every
\* line.
C15_AsStated ==
  [][GetHeaderChunks =>
       \A n \in 1..Len(result'.chunks) :
         result'.chunks[n] = StatedChunk(cfile, NthOf(Qualifying(cfile, result'.private), n))]_vars

(***************************************************************************)
(* Properties of the order and the separation of the fragments of a header.*)
(***************************************************************************)
\* The declarations of the AST that a pass writes, by their index
WrittenDecls(gen, cf) ==
  {d \in 1..Len(gen.ast) :
     IF gen.ast[d].kind = "FuncDef" THEN ~visit_FuncDecl_returns(gen, cf, gen.ast[d])
     ELSE /\ gen.ast[d].kind \in {"TypeDecl", "PtrDecl", "ArrayDecl"}
          /\ ~on_var_decl_returns(gen, cf, gen.ast[d])}

\* What is written for the declaration decl
DeclText(gen, cf, decl) ==
  IF decl.kind = "FuncDef"
    THEN make_func_decl(cf, decl.line,
                        find_func_decl_end(cf.text, line_to_pos(cf.text, decl.line)))
  ELSE IF gen.private
    THEN make_plain_var_decl(cf, decl.line,
                             find_var_decl_end(cf.text, line_to_pos(cf.text, decl.line)))
  ELSE make_extern_var_decl(cf, decl.line,
                            find_var_decl_end(cf.text, line_to_pos(cf.text, decl.line)))

\* The fragments of a header with the offset of their place in the source:
\* the start of the line of a declaration, the opening directive of a block
Fragments(gen, cf) ==
  {[pos |-> line_to_pos(cf.text, gen.ast[d].line),
    text |-> write_raw(DeclText(gen, cf, gen.ast[d]))] : d \in WrittenDecls(gen, cf)}
  \cup
  {[pos |-> cf.preproc_ifs[k][1],
    text |-> write_raw(HeaderChunk(cf, cf.preproc_ifs[k][1], cf.preproc_ifs[k][2]))] :
     k \in Qualifying(cf, gen.private)}

FirstFragment(frags) == CHOOSE f \in frags : \A g \in frags : f.pos <= g.pos

RECURSIVE InSourceOrder(_)
InSourceOrder(frags) ==
  IF frags = {} THEN <<>>
  ELSE <<FirstFragment(frags).text>> \o InSourceOrder(frags \ {FirstFragment(frags)})

\* The fragments with one newline between two of them
RECURSIVE Joined(_)
Joined(texts) ==
  IF texts = <<>> THEN <<>>
  ELSE IF Len(texts) = 1 THEN texts[1]
  ELSE texts[1] \o <<NL>> \o Joined(Tail(texts))

\* What write_guard_start has written
GuardWritten(gen, cf) ==
  IF gen.guard THEN GuardStartLines(FirstGuardName(cf)) ELSE <<>>

\* C16: when write_remaining_marked_chunks has returned, the header holds,
\* after the guard lines, each declaration written and each qualifying chunk
\* once, in the order of their places in the source.
C16_SourceOrder ==
  pc = "write_guard_end" =>
    generator.outfile =
      GuardWritten(generator, cfile) \o Joined(InSourceOrder(Fragments(generator, cfile)))

\* The public pass is done on the source with two declarations, each
\* followed by a header block: declaration, chunk, declaration, chunk.
C16_Witness ==
  /\ pc = "ready"
  /\ input = Interleaved.text
  /\ Len(result) = 1
  /\ result[1] = [private |-> FALSE,
                  header |-> <<"e", "x", "t", "e", "r", "n", " ", "i", "n",
                             "t", " ", "a", ";", NL, NL, "v", "o", "i",
                             "d", " ", "f", "o", "o", "(", "i", "n", "t",
                             " ", "x", ")", ";", NL, NL, "i", "n", "t",
                             " ", "f", "(", "v", "o", "i", "d", ")", ";",
                             NL, NL, "#", "d", "e", "f", "i", "n", "e",
                             " ", "N", " ", "2", NL>>]

(***************************************************************************)
(* Properties of generate_headers when an error is raised.                 *)
(***************************************************************************)
\* C17 (as stated): when generate_headers has ended with an error, nothing
\* has been written, neither to the stream of the pass that failed nor to
\* the file of a pass before it.
C17_AsStated ==
  pc = "error" => generator.outfile = <<>> /\ result = <<>>

(***************************************************************************)
(* Properties of the declarations with `extern` storage.                   *)
(***************************************************************************)
\* C18 (as stated): nothing is written for a declaration, of a variable or
\* of a function, whose storage includes extern, in either pass.
C18_AsStated ==
  [][VisitStep /\ "extern" \in Decl.storage
       => generator'.outfile = generator.outfile]_vars

\* C18: nothing is written in either pass for a variable whose storage
\* includes extern; for a function definition whose storage includes extern
\* (and not static), outside a conditional, the public pass writes its
\* declaration and the private pass writes nothing.
C18_ExternRecords ==
  [][VisitStep /\ "extern" \in Decl.storage
       => /\ Decl.kind # "FuncDef" => generator'.outfile = generator.outfile
          /\ Decl.kind = "FuncDef" /\ generator.private
               => generator'.outfile = generator.outfile
          /\ /\ Decl.kind = "FuncDef"
             /\ ~generator.private
             /\ "static" \notin Decl.storage
             /\ ~is_in_preproc_cond(cfile, Decl.line)
             /\ pc' = "write_from_ast"
             => /\ generator'.outfile # generator.outfile
                /\ EndsWith(generator'.outfile,
                            write_raw(DeclText(generator, cfile, Decl)))]_vars

\* Both passes are done on `extern int e(void) {}` and `extern int c;`: the
\* public header declares e and not c, the private header is empty.
C18_Witness ==
  /\ pc = "ready"
  /\ input = Assemble(<<ExternE, ExternC>>).text
  /\ result = <<[private |-> FALSE,
                 header |-> <<"e", "x", "t", "e", "r", "n", " ", "i", "n",
                            "t", " ", "e", "(", "v", "o", "i", "d", ")",
                            ";", NL>>],
                [private |-> TRUE, header |-> <<>>]>>

(***************************************************************************)
(* Properties of the separation of the fragments.                          *)
(***************************************************************************)
\* Where the i-th of the fragments starts when the first starts at base and
\* one byte lies between two of them
RECURSIVE FragmentOffset(_, _, _)
FragmentOffset(texts, i, base) ==
  IF i = 1 THEN base
  ELSE FragmentOffset(texts, i - 1, base) + Len(texts[i - 1]) + 1

\* out holds the fragments from base on, each ending its last line, with one
\* empty line and nothing else between two of them and nothing after the last
SeparatedByOneBlankLine(out, texts, base) ==
  /\ \A i \in 1..Len(texts) :
       /\ FragmentOffset(texts, i, base) + Len(texts[i]) <= Len(out)
       /\ Slice(out, FragmentOffset(texts, i, base),
                FragmentOffset(texts, i, base) + Len(texts[i])) = texts[i]
       /\ Len(texts[i]) >= 1
       /\ texts[i][Len(texts[i])] = NL
       /\ i < Len(texts)
            => /\ FragmentOffset(texts, i, base) + Len(texts[i]) < Len(out)
               /\ At(out, FragmentOffset(texts, i, base) + Len(texts[i])) = NL
  /\ Len(out) = IF texts = <<>> THEN base
                ELSE FragmentOffset(texts, Len(texts), base) + Len(texts[Len(texts)])

\* The line that ends just before offset p of out is empty
BlankLineBefore(out, p) ==
  /\ p >= 1
  /\ At(out, p - 1) = NL
  /\ p = 1 \/ At(out, p - 2) = NL

\* Where the first fragment of the header starts: after the guard lines
FirstFragmentOffset == Len(GuardWritten(generator, cfile))

\* C19 (as stated): the fragments written are separated by exactly one
\* blank line, and no blank line precedes the first of them.
C19_AsStated ==
  pc = "write_guard_end" =>
    /\ SeparatedByOneBlankLine(generator.outfile,
                               InSourceOrder(Fragments(generator, cfile)),
                               FirstFragmentOffset)
    /\ Fragments(generator, cfile) # {}
         => ~BlankLineBefore(generator.outfile, FirstFragmentOffset)

\* C19: the fragments written (a chunk of an empty interior is the fragment
\* of one empty line) are separated by exactly one blank line, and the first
\* of them starts the header or directly follows the guard lines, whose last
\* line is blank.
C19_Separation ==
  pc = "write_guard_end" =>
    /\ SeparatedByOneBlankLine(generator.outfile,
                               InSourceOrder(Fragments(generator, cfile)),
                               FirstFragmentOffset)
    /\ Slice(generator.outfile, 0, FirstFragmentOffset) = GuardWritten(generator, cfile)
    /\ generator.guard => BlankLineBefore(generator.outfile, FirstFragmentOffset)

\* The public pass is done on two declarations with an empty block between
\* them: the fragments are the first declaration, one empty line and the
\* second declaration.
C19_Witness ==
  /\ pc = "ready"
  /\ input = AroundEmpty.text
  /\ Len(result) = 1
  /\ result[1] = [private |-> FALSE,
                  header |-> <<"e", "x", "t", "e", "r", "n", " ", "i", "n",
                             "t", " ", "a", ";", NL, NL, NL, NL, "e", "x",
                             "t", "e", "r", "n", " ", "i", "n", "t", " ",
                             "*", "p", ";", NL>>]

(***************************************************************************)
(* Properties of the dispatch of BlockParser.parse_iter.                   *)
(***************************************************************************)
\* A step of BlockParser.parse: one parse_iter
BlockParseIterStep == pc = "parse" /\ block_parser.pos < Len(block_parser.text)

StatementKeywords ==
  {<<"t", "y", "p", "e", "d", "e", "f">>, <<"s", "t", "r", "u", "c", "t">>,
   <<"e", "n", "u", "m">>, <<"u", "n", "i", "o", "n">>}

\* One of the keywords stands at offset q of t as a whole word
KeywordAt(t, q) ==
  /\ ~IsWordAt(t, q - 1)
  /\ \E w \in StatementKeywords :
       /\ Slice(t, q, q + Len(w)) = w
       /\ ~IsWordAt(t, q + Len(w))

\* A `=` stands at offset q of t on its own, not as a part of an operator
\* such as ==, <=, >=, != or +=
BareAssignAt(t, q) ==
  /\ At(t, q) = "="
  /\ q = 0 \/ At(t, q - 1) \notin {"=", "<", ">", "!", "+", "-", "*", "/", "%", "&", "|", "^"}
  /\ q + 1 >= Len(t) \/ At(t, q + 1) # "="

\* A preprocessor line starts at offset q of t
PreprocLineAt(t, q) == At(t, q) = "#" /\ (q = 0 \/ At(t, q - 1) = NL)

\* What the dispatcher meets first from offset p on: the offset and whether
\* it opens a statement (a keyword or a bare `=`), a block or a
\* preprocessor line; offset -1 when there is nothing
FirstMet(t, p) ==
  LET met == {q \in p..(Len(t) - 1) :
                KeywordAt(t, q) \/ BareAssignAt(t, q) \/ At(t, q) = "{" \/ PreprocLineAt(t, q)}
  IN  IF met = {} THEN [at |-> -1, kind |-> "none"]
      ELSE [at |-> SetMin(met),
            kind |-> IF KeywordAt(t, SetMin(met)) \/ BareAssignAt(t, SetMin(met)) THEN "statement"
                     ELSE IF At(t, SetMin(met)) = "{" THEN "openbrace"
                     ELSE "preproc"]

\* The first `;` from offset q on with as many `{` as `}` between q and it
StatedStatementEnd(t, q) ==
  {i \in q..(Len(t) - 1) :
     /\ At(t, i) = ";"
     /\ CountByte(t, "{", q, i) = CountByte(t, "}", q, i)
     /\ \A j \in q..(i - 1) :
          ~(At(t, j) = ";" /\ CountByte(t, "{", q, j) = CountByte(t, "}", q, j))}

\* The `}` that matches the `{` at offset b
StatedClosingBrace(t, b) ==
  {i \in (b + 1)..(Len(t) - 1) :
     /\ At(t, i) = "}"
     /\ CountByte(t, "{", b + 1, i) = CountByte(t, "}", b + 1, i)
     /\ \A j \in (b + 1)..(i - 1) :
          ~(At(t, j) = "}" /\ CountByte(t, "{", b + 1, j) = CountByte(t, "}", b + 1, j))}

\* What the statement says of a parse_iter that meets m first
C20StatedStep(m) ==
  /\ m.kind = "statement"
       => /\ block_parser'.blocks = block_parser.blocks
          /\ ~block_parser'.err
               => block_parser'.pos - 1 \in StatedStatementEnd(block_parser.text, m.at)
  /\ block_parser'.blocks # block_parser.blocks
       => /\ m.kind = "openbrace"
          /\ \E e \in StatedClosingBrace(block_parser.text, m.at) :
               block_parser'.blocks = Append(block_parser.blocks, <<m.at + 1, e>>)

\* C20 (as stated): a parse_iter that first meets typedef, struct, enum,
\* union or a bare `=` skips to the first `;` at brace depth 0 and records
\* no block; a block is recorded only by a parse_iter that first meets a
\* `{`, from just after it to its matching `}`.
C20_AsStated ==
  [][BlockParseIterStep
       => \E m \in {FirstMet(block_parser.text, block_parser.pos)} : C20StatedStep(m)]_vars

(***************************************************************************)
(* Properties of the searches for the comment before a position.           *)
(***************************************************************************)
\* The indexes of the recorded spans that end before pos, and of those that
\* end at pos or before it
EndingBefore(cf, pos) == {j \in 1..Len(cf.comments) : cf.comments[j][2] < pos}

EndingAtOrBefore(cf, pos) == {j \in 1..Len(cf.comments) : cf.comments[j][2] <= pos}

\* The last of the spans of S, 0 when there is none
LastOf(S) == IF S = {} THEN 0 ELSE SetMax(S)

\* C21 (as stated): get_comment_pos_before(pos) returns the last recorded
\* span whose end is at most pos, the span that ends at pos included, and
\* None exactly when no span ends at pos or before it.
C21_AsStated ==
  pc = "pos_before" => result.k = LastOf(EndingAtOrBefore(cfile, result.pos))

\* C21: get_comment_pos_before(pos) returns the last recorded span whose end
\* is less than pos, and None exactly when no span ends before pos; a span
\* that ends at pos is not returned.
C21_LastSpanBefore ==
  pc = "pos_before" => result.k = LastOf(EndingBefore(cfile, result.pos))

\* Three comments, spans (2, 3), (7, 8) and (12, 13): the search at the end
\* of the second one returns the first one.
C21_Witness ==
  /\ pc = "pos_before"
  /\ input = <<"/", "*", "a", "*", "/", "/", "*", "a", "*", "/", "/", "*",
             "a", "*", "/">>
  /\ cfile.comments = <<<<2, 3>>, <<7, 8>>, <<12, 13>>>>
  /\ result = [pos |-> 8, k |-> 1]

\* The k-th recorded comment ends on the line of pos or on the line before it
EndsNextTo(cf, pos, k) ==
  pos_to_line(cf.text, cf.comments[k][2]) >= pos_to_line(cf.text, pos) - 1

\* The start of the earliest comment of the chain of adjoining comments
\* before pos, among the comments before the one numbered bound; `start`
\* when the chain is empty
RECURSIVE ChainStart(_, _, _, _)
ChainStartAt(cf, pos, start, k) ==
  IF k = 0 \/ ~EndsNextTo(cf, pos, k) THEN start
  ELSE ChainStart(cf, cf.comments[k][1], cf.comments[k][1], k)

ChainStart(cf, pos, start, bound) ==
  ChainStartAt(cf, pos, start, LastOf({j \in EndingBefore(cf, pos) : j < bound}))

\* The text from the line of the earliest comment of the chain before the
\* line lineno up to the start of that line, empty when no comment qualifies
StatedCommentBefore(cf, lineno) ==
  LET pos == line_to_pos(cf.text, lineno)
      start == ChainStart(cf, pos, pos, Len(cf.comments) + 1)
  IN  IF start = pos THEN <<>>
      ELSE Slice(cf.text, LineStartOf(cf.text, start), pos)

\* C22: get_comment_before(line) returns the text from the line of the
\* earliest comment of the chain of adjoining comments directly before the
\* line up to the start of the line, a comment being in the chain only when
\* it ends on the line before the position searched or on its line, and the
\* empty string when no comment qualifies.
C22_CommentBefore ==
  pc = "comment_before" => result.text = StatedCommentBefore(cfile, result.lineno)

\* A chain of two comments before line 3: /*a*/ | //b | x;
C22_Witness ==
  /\ pc = "comment_before"
  /\ input = <<"/", "*", "a", "*", "/", NL, "/", "/", "b", NL, "x", ";",
             NL>>
  /\ cfile.comments = <<<<2, 3>>, <<8, 9>>>>
  /\ result = [lineno |-> 3,
               text |-> <<"/", "*", "a", "*", "/", NL, "/", "/", "b", NL>>]

(***************************************************************************)
(* Properties of the conditional regions recorded by parse_metadata.       *)
(***************************************************************************)
ConditionalWords == {<<"i", "f">>, <<"i", "f", "d", "e", "f">>, <<"i", "f", "n", "d", "e", "f">>}

\* The bytes from offset h of t are `#`, one of if, ifdef, ifndef, and a
\* whitespace byte
OpensConditionalAt(t, h) ==
  /\ h < Len(t)
  /\ At(t, h) = "#"
  /\ \E w \in ConditionalWords :
       /\ Slice(t, h + 1, h + 1 + Len(w)) = w
       /\ h + 1 + Len(w) < Len(t)
       /\ At(t, h + 1 + Len(w)) \in Whitespace

\* The bytes from offset h of t are the word #endif
ClosesConditionalAt(t, h) ==
  /\ Slice(t, h, h + 6) = <<"#", "e", "n", "d", "i", "f">>
  /\ ~IsWordAt(t, h + 6)

\* The first byte of the line that starts at p that is not a blank
FirstNonBlank(t, p) ==
  SetMin({k \in p..Len(t) : k = Len(t) \/ At(t, k) \notin (Whitespace \ {NL})})

\* The end of the #endif that brings the depth of the conditionals open
\* down to 0, reading the lines from the one that starts at p, with `depth`
\* conditionals open; -1 when the text ends before it
RECURSIVE MatchingEndif(_, _, _)
MatchingEndifOn(t, p, depth, h) ==
  IF ClosesConditionalAt(t, h)
    THEN (IF depth = 1 THEN h + 6
          ELSE MatchingEndif(t, get_line_end(t, p) + 1, depth - 1))
  ELSE IF OpensConditionalAt(t, h)
    THEN MatchingEndif(t, get_line_end(t, p) + 1, depth + 1)
  ELSE MatchingEndif(t, get_line_end(t, p) + 1, depth)

MatchingEndif(t, p, depth) ==
  IF p >= Len(t) THEN -1 ELSE MatchingEndifOn(t, p, depth, FirstNonBlank(t, p))

\* Every region has start < end and ends before the next one starts
RegionsOrdered(ifs) ==
  /\ \A k \in 1..Len(ifs) : ifs[k][1] < ifs[k][2]
  /\ \A k \in 1..(Len(ifs) - 1) : ifs[k][2] < ifs[k + 1][1]

\* A step of parse_metadata: one parse_metadata_iter
MetadataIterStep == pc = "parse_metadata"

\* What a parse_metadata_iter records when the conditional it is at ends at
\* offset e (-1: it does not end)
C23Step(e) ==
  /\ IF OpensConditionalAt(cfile.text, cfile.i)
       THEN IF e = -1
              THEN cfile'.err /\ cfile'.preproc_ifs = cfile.preproc_ifs
            ELSE /\ ~cfile'.err
                 /\ cfile'.preproc_ifs = Append(cfile.preproc_ifs, <<cfile.i + 1, e>>)
                 /\ cfile'.i = e
     ELSE cfile'.preproc_ifs = cfile.preproc_ifs
  /\ RegionsOrdered(cfile'.preproc_ifs)

\* C23: a parse_metadata_iter at a `#if`, `#ifdef` or `#ifndef` records one
\* region, from the byte after the `#` to the end of the #endif that matches
\* it under nesting, and goes on after it, so that the conditionals nested
\* in it are not recorded; no other parse_metadata_iter records a region;
\* every region has start < end and ends before the next one starts.
C23_Regions ==
  [][MetadataIterStep
       => \E e \in {MatchingEndif(cfile.text, get_line_end(cfile.text, cfile.i) + 1, 1)} :
            C23Step(e)]_vars

\* parse_metadata has returned on the text of two regions, the first with
\* a nested conditional.
C23_Witness ==
  /\ pc = "ready"
  /\ input = TwoRegions
  /\ cfile.preproc_ifs = <<<<1, 42>>, <<51, 62>>>>

(***************************************************************************)
(* Properties of the errors raised at the end of the buffer.               *)
(***************************************************************************)
\* A byte that no text of the model holds, put after the text to mark its end
EndMark == "@"

\* The text ends with nothing open: read one byte at a time with the stack
\* of what is open, the end mark is met with nothing open.
NothingOpenAtEnd(t) ==
  FirstOutside(t \o <<EndMark>>, 0, <<>>, {EndMark}, TRUE) = Len(t)

\* The step raised CFileParseError with the line and column of self.i
RaisedWithLocation ==
  /\ pc' = "error"
  /\ cfile'.err
  /\ <<cfile'.line, cfile'.col>> = location(cfile.text, cfile'.i)
  /\ cfile'.line \in 1..(count_newlines(cfile.text) + 1)
  /\ cfile'.col >= 1

(***************************************************************************)
(* C24.  parse_metadata returns normally only if the buffer ends with no   *)
(* string or character literal, block comment, (), [] or {} group or       *)
(* #if/#ifdef/#ifndef conditional open, and otherwise fails with a         *)
(* CFileParseError that carries a line and a column; find_var_decl_end and *)
(* find_func_decl_end fail in the same way when the buffer ends before a   *)
(* terminator outside every unit is found.                                 *)
(***************************************************************************)
C24_FailsAtEndOfBuffer ==
  [][/\ (pc = "parse_metadata" /\ pc' = "ready") => NothingOpenAtEnd(cfile.text)
     /\ (pc = "parse_metadata" /\ pc' = "error") =>
          RaisedWithLocation /\ ~NothingOpenAtEnd(cfile.text)
     /\ \A startpos \in 0..Len(cfile.text) :
          /\ (/\ FindVarDeclEndAt(startpos)
              /\ FirstOutside(cfile.text, startpos, <<>>, {"=", ";"}, TRUE) = -1) =>
               ~result'.ok /\ RaisedWithLocation
          /\ (/\ FindFuncDeclEndAt(startpos)
              /\ FirstOutside(cfile.text, startpos, <<>>, {"{", ";"}, TRUE) = -1) =>
               ~result'.ok /\ RaisedWithLocation]_vars

\* `{(` has failed at the end of the buffer, searching for ")".
C24_Witness ==
  /\ pc = "error"
  /\ input = <<"{", "(">>
  /\ result = <<>>
  /\ cfile.msg = MsgEOFSearching(")")
  /\ <<cfile.line, cfile.col>> = <<2, 1>>

(***************************************************************************)
(* Properties of the comment spans recorded by parse_metadata.             *)
(***************************************************************************)
\* The end of the text of the comment whose text starts at offset s: the
\* line end for a comment opened by "//", the "*/" for one opened by "/*"
CommentTextEnd(t, s) ==
  IF Slice(t, s - 2, s) = <<"/", "/">> THEN get_line_end(t, s)
  ELSE SetMin({k \in s..Len(t) : k = Len(t) \/ StartsWith(t, <<"*", "/">>, k)})

\* The spans are strictly increasing in start and in end
SpansIncreasing(comments) ==
  \A k \in 2..Len(comments) :
    comments[k - 1][1] < comments[k][1] /\ comments[k - 1][2] < comments[k][2]

(***************************************************************************)
(* C25 as stated.  After parse_metadata every recorded span (start, end)   *)
(* has start <= end and text[start:end] the text of the comment without    *)
(* its delimiters, and the spans are strictly increasing in start and in   *)
(* end, also for a line comment that ends with a backslash.                *)
(***************************************************************************)
C25_AsStated ==
  pc = "ready" =>
    /\ \A k \in 1..Len(cfile.comments) :
         /\ cfile.comments[k][1] <= cfile.comments[k][2]
         /\ cfile.comments[k][2] = CommentTextEnd(cfile.text, cfile.comments[k][1])
    /\ SpansIncreasing(cfile.comments)

(***************************************************************************)
(* normalize_indentation(bytestr, reference_line) on its own, cfile.py     *)
(***************************************************************************)
MaxIndentTokens == 5

IndentTokens == {<<" ">>, <<" ", " ">>, <<"\t">>, <<"x">>, <<NL>>}

\* A signature of four lines indented by 0, 8, 16 and 8 spaces
WithGaps ==
  <<"f", "(", NL, " ", " ", " ", " ", " ", " ", " ", " ", "a", ",", NL,
    " ", " ", " ", " ", " ", " ", " ", " ", " ", " ", " ", " ", " ", " ",
    " ", " ", "b", ",", NL, " ", " ", " ", " ", " ", " ", " ", " ", "c", ")">>

\* <<>> stands for None and for the empty line
ReferenceLines ==
  {<<>>, <<"y">>, <<" ", "y">>, <<" ", " ", "y">>, <<" ", " ", " ", " ", "y">>,
   <<"\t", "y">>, <<"\t", "\t", "y">>, <<"\t", " ", "y">>}

InitIndent ==
  /\ input \in [bytestr : TokenTexts(IndentTokens, MaxIndentTokens) \cup {WithGaps},
                reference_line : ReferenceLines]
  /\ pc = "start"
  /\ cfile = CSourceFile(<<>>)
  /\ block_parser = BlockParser(<<>>)
  /\ include_parser = IncludeParser(<<>>)
  /\ generator = HeaderGenerator(<<>>)
  /\ result = <<>>

NormalizeIndentation ==
  /\ pc = "start"
  /\ result' = normalize_indentation(input.bytestr, input.reference_line)
  /\ pc' = "normalized"
  /\ UNCHANGED <<input, block_parser, include_parser, cfile, generator>>

SpecIndent == InitIndent /\ [][NormalizeIndentation]_vars

(***************************************************************************)
(* Properties of normalize_indentation.                                    *)
(***************************************************************************)
\* The run of tabs, or of spaces, that starts the reference line
ReferenceIndent(line) ==
  IF line = <<>> \/ line[1] \notin {" ", "\t"} THEN <<>>
  ELSE Slice(line, 0, SetMax({n \in 1..Len(line) : \A j \in 1..n : line[j] = line[1]}))

\* The number of whole copies of unit that start the line
UnitsOf(line, unit) ==
  SetMax({n \in 0..Len(line) : Slice(line, 0, n * Len(unit)) = Repeat(unit, n)})

\* The line after the copies of unit that start it
AfterUnits(line, unit) ==
  Slice(line, UnitsOf(line, unit) * Len(unit), Len(line))

\* The lines of t, each with its newline
RECURSIVE LinesOf(_)
LinesOf(t) ==
  IF t = <<>> THEN <<>>
  ELSE <<Slice(t, 0, get_line_end(t, 0) + 1)>>
       \o LinesOf(Slice(t, get_line_end(t, 0) + 1, Len(t)))

\* out is `lines` in the same order, line k indented by copies[k] copies of
\* unit in place of its own: the numbers of copies are 0, 1, 2, ... with no
\* gaps and in the order of the indent sizes of the lines
Renumbered(lines, out, unit) ==
  \E copies \in [1..Len(lines) -> 0..Len(lines)] :
    /\ out = Concat([k \in 1..Len(lines) |->
                       Repeat(unit, copies[k]) \o AfterUnits(lines[k], unit)])
    /\ {copies[k] : k \in 1..Len(lines)}
         = 0..(Cardinality({UnitsOf(lines[k], unit) : k \in 1..Len(lines)}) - 1)
    /\ \A j, k \in 1..Len(lines) :
         UnitsOf(lines[j], unit) < UnitsOf(lines[k], unit) <=> copies[j] < copies[k]

\* The spaces and tabs that start the text
LeadingIndent(t) ==
  Slice(t, 0, SetMax({n \in 0..Len(t) : \A j \in 1..n : t[j] \in {" ", "\t"}}))

\* out is `lines`, each without the indent `lead` when it starts with it
Unindented(lines, out, lead) ==
  out = Concat([k \in 1..Len(lines) |->
                  IF Slice(lines[k], 0, Len(lead)) = lead
                    THEN Slice(lines[k], Len(lead), Len(lines[k]))
                  ELSE lines[k]])

RECURSIVE Parsed(_)
Parsed(self) ==
  IF self.err \/ self.i >= Len(self.text) THEN self ELSE Parsed(parse_metadata_iter(self))

\* What write_all gives from the state (gen, cf) reached after
\* write_guard_start: how it ends (pc) and the header written
RECURSIVE PassFrom(_, _)
PassWritten(gen, cf, decl, r, text) ==
  IF ~r.ok THEN [pc |-> "error", header |-> <<>>]
  ELSE IF get_min_comment_start_directly_before(cf, line_to_pos(cf.text, decl.line)) = -2
    THEN [pc |-> "hang", header |-> <<>>]
  ELSE PassFrom([write_decl_chunk(gen, cf, text, decl.line)
                   EXCEPT !.last_decl_lineno = decl.line, !.k = @ + 1],
                AfterFind(cf, r))

PassVisit(gen, cf, decl) ==
  IF decl.kind = "FuncDef" /\ ~visit_FuncDecl_returns(gen, cf, decl)
    THEN LET r == find_func_decl_end(cf.text, line_to_pos(cf.text, decl.line))
         IN  PassWritten(gen, cf, decl, r, make_func_decl(cf, decl.line, r))
  ELSE IF decl.kind \in {"TypeDecl", "PtrDecl", "ArrayDecl"}
          /\ ~on_var_decl_returns(gen, cf, decl)
    THEN LET r == find_var_decl_end(cf.text, line_to_pos(cf.text, decl.line))
         IN  PassWritten(gen, cf, decl, r,
                         IF gen.private THEN make_plain_var_decl(cf, decl.line, r)
                         ELSE make_extern_var_decl(cf, decl.line, r))
  ELSE PassFrom([gen EXCEPT !.k = @ + 1], cf)

PassEnd(gen) ==
  [pc |-> "ready",
   header |-> IF gen.guard THEN write_guard_end(gen).outfile ELSE gen.outfile]

PassFrom(gen, cf) ==
  IF gen.k > Len(gen.ast) THEN PassEnd(write_remaining_marked_chunks(gen, cf))
  ELSE PassVisit(gen, cf, gen.ast[gen.k])

\* write_all(outfile, private) as the first call on HeaderGenerator(input)
FirstPassOn(cf, private) ==
  PassFrom(write_guard_start(
             [HeaderGenerator(generator.ast) EXCEPT !.last_decl_lineno = 1,
                                                    !.private = private],
             cf),
           cf)

FirstPass(private) ==
  FirstPassOn([Parsed(CSourceFile(input)) EXCEPT !.private = private], private)

\* A second write_all is under way
InSecondPass == Len(result) = 1 /\ pc \in {"write_from_ast", "write_guard_end"}

(***************************************************************************)
(* C27.  A write_all called after a write_all for the other visibility on  *)
(* the same HeaderGenerator starts with last_decl_lineno = 1 and the       *)
(* first-fragment flag true, and ends as the same write_all called first   *)
(* on a HeaderGenerator just constructed: with the same bytes written when *)
(* it returns, and with an error exactly when that one has an error.       *)
(***************************************************************************)
C27_SecondPassAsFirst ==
  [][/\ (pc = "ready" /\ Len(result) = 1 /\ pc' = "write_from_ast") =>
          generator'.last_decl_lineno = 1 /\ generator'.first
     /\ (InSecondPass /\ pc' \in {"ready", "error", "hang"}) =>
          \E pass \in {FirstPass(generator.private)} :
            /\ pass.pc = pc'
            /\ pc' = "ready" => result'[2].header = pass.header]_vars

\* Both headers of the scenario have been written, the private one last:
\* `static int g_count;`
C27_Witness ==
  /\ pc = "ready"
  /\ input = Scenario.text
  /\ Len(result) = 2
  /\ result[1] = [private |-> FALSE,
                  header |->
                    <<"v", "o", "i", "d", " ", "f", "o", "o", "(", "i",
                    "n", "t", " ", "x", ")", ";", NL, NL, "i", "n", "t",
                    " ", "c", "o", "m", "p", "u", "t", "e", "(", "i", "n",
                    "t", " ", "x", ")", ";", NL>>]
  /\ result[2] = [private |-> TRUE,
                  header |->
                    <<"s", "t", "a", "t", "i", "c", " ", "i", "n", "t",
                    " ", "g", "_", "c", "o", "u", "n", "t", ";", NL>>]

(***************************************************************************)
(* C28 as stated.  get_min_comment_start_directly_before returns for every *)
(* text and every position, and so does get_comment_before, which calls    *)
(* it: no call goes on selecting the same comment.                         *)
(***************************************************************************)
C28_AsStated == pc # "hang"

(***************************************************************************)
(* Properties of the flag stack of IncludeParser.                          *)
(***************************************************************************)
\* The stack holds the base entry and one flag for each conditional open
StackMatchesLevel(self) ==
  /\ Len(self.preproc_is_header_block_stack) >= 1
  /\ Len(self.preproc_is_header_block_stack) = self.preproc_level + 1

C29Step(m) ==
  /\ pc = "includes" => StackMatchesLevel(include_parser)
  /\ pc' # "error" => StackMatchesLevel(include_parser')
  /\ ParseIterStep =>
       IF AtDirective(m) /\ OpensConditional(PreHash(m))
         THEN /\ Len(include_parser'.preproc_is_header_block_stack)
                   = Len(include_parser.preproc_is_header_block_stack) + 1
              /\ SubSeq(include_parser'.preproc_is_header_block_stack, 1,
                        Len(include_parser.preproc_is_header_block_stack))
                   = include_parser.preproc_is_header_block_stack
              /\ pc' = "includes"
       ELSE IF AtDirective(m) /\ EndifDirective(PreHash(m))
         THEN IF include_parser.preproc_level > 0
                THEN /\ include_parser'.preproc_is_header_block_stack
                          = SubSeq(include_parser.preproc_is_header_block_stack, 1,
                                   Len(include_parser.preproc_is_header_block_stack) - 1)
                     /\ pc' = "includes"
              ELSE /\ pc' = "error"
                   /\ include_parser'.preproc_is_header_block_stack
                        = include_parser.preproc_is_header_block_stack
                   /\ Len(include_parser'.preproc_is_header_block_stack) = 1
       ELSE /\ include_parser'.preproc_is_header_block_stack
                 = include_parser.preproc_is_header_block_stack
            /\ include_parser'.preproc_level = include_parser.preproc_level
            /\ pc' = "includes"

(***************************************************************************)
(* C29.  While IncludeParser.parse runs, and when it has returned, the     *)
(* flag stack is not empty and its length is preproc_level + 1.  A step at *)
(* an #if, #ifdef or #ifndef directive pushes exactly one flag, a step at  *)
(* an #endif with a conditional open pops exactly one, a step at an #endif *)
(* with none open raises and leaves the base entry on the stack, and a     *)
(* step at anything else (#else and #elif included) leaves the stack and   *)
(* the level as they are.                                                  *)
(***************************************************************************)
C29_StackAndLevel == [][\E m \in {PreMatch} : C29Step(m)]_vars

\* The parse is past `#elif 1`, inside two conditionals, the inner one of
\* HEADER.
C29_Witness ==
  /\ pc = "includes"
  /\ input = ElseElif
  /\ include_parser.pos = 33
  /\ include_parser.preproc_level = 2
  /\ include_parser.preproc_is_header_block_stack = <<FALSE, FALSE, TRUE>>

(***************************************************************************)
(* Properties of the errors of replace_blocks.                             *)
(***************************************************************************)
\* Every "}" of t closes a "{" and every "{" is closed
BracesBalanced(t) ==
  /\ CountByte(t, "{", 0, Len(t)) = CountByte(t, "}", 0, Len(t))
  /\ \A k \in 0..Len(t) : CountByte(t, "{", 0, k) >= CountByte(t, "}", 0, k)

\* The last byte of t that is not whitespace is a ";" or a "}"
LastItemEnded(t) ==
  \E k \in 0..(Len(t) - 1) :
    /\ At(t, k) \in {";", "}"}
    /\ \A j \in (k + 1)..(Len(t) - 1) : At(t, j) \in Whitespace

(***************************************************************************)
(* C30 as stated.  replace_blocks returns a result on every input whose    *)
(* braces are balanced and whose last top-level item is ended by a ";" or  *)
(* by a closed brace body, such as a function definition with a struct     *)
(* return type: it raises BlockReplacementParseError only on other inputs. *)
(***************************************************************************)
C30_AsStated ==
  pc = "error" => ~(BracesBalanced(input) /\ LastItemEnded(input))

====
